---- MODULE Spec2Model ----
(***************************************************************************)
(* A model of the coordination core of algoTrader: the publish/subscribe   *)
(* bus in its plain and stateful variants (src/src/core), the agent        *)
(* base class with its throttle, and the trading hub that dispatches ticks *)
(* and runs the periodic loops.  Every coroutine is cut at its await       *)
(* points: the code between two awaits runs atomically on the asyncio      *)
(* event loop and is one action here.                                      *)
(***************************************************************************)
EXTENDS Integers, Sequences, FiniteSets, TLC

(***************************************************************************)
(* Bounds and the finite universes of the model.                           *)
(***************************************************************************)
MaxCalls == 3
MaxAdmits == 2
MaxTicks == 1
MaxTime == 2

MaxOps == 3
MaxLen == 3

Calls == 1 .. MaxCalls

\* One more caller, which only repeats a subscribe_listener call already made.
ResubCalls == {MaxCalls + 1}
AllCalls == Calls \cup ResubCalls
Topics == {"T1", "T2"}
Listeners == {"s1", "s2", "a1", "a2"}

\* asyncio.iscoroutinefunction(listener)
IsAsync(l) == l \in {"a1", "a2"}

VARIABLES
    variant,                  \* which bus class the bus object is
    subscription_repository,  \* topic -> set of listeners (keys: topics seen)
    last_value_repository,    \* topic -> last value (stateful bus only)
    lockQueue,                \* self._lock: holder first, then FIFO waiters
    pc,                       \* where each bus call stands
    op,                       \* the call: kind, topic, listener
    listeners,                \* publish's local `listeners`
    inv,                      \* per call and listener: state of the invocation
    replay,                   \* subscribe: the value replayed ({} when none)
    order                     \* history: calls in the order their body ran

busVars == <<variant, subscription_repository, last_value_repository,
             lockQueue, pc, op, listeners, inv, replay, order>>

VARIABLES
    clock,                    \* datetime.utcnow(), in units of half a second
    toAdd,                    \* the add_agent calls the main program still makes
    added,                    \* per agent: how its add_agent call ended
    trading_client,           \* agents whose trading_client is the hub's
    agent_bus,                \* agents whose communication_bus is the hub's
    event_agents,             \* TradingHub.event_agents
    periodic_agents,          \* TradingHub.periodic_agents
    subscribed_quotes,        \* TradingHub._subscribed_quotes
    pcStart,                  \* where TradingHub.start() stands
    stream_subs,              \* the subscriptions made on the quote stream
    loop,                     \* per periodic agent: where its loop task stands
    wake,                     \* per periodic agent: when its sleep ends
    activeRuns,               \* per periodic agent: run() calls in progress
    lastOutcome,              \* per periodic agent: how its last run() ended
    dispatched,               \* per tick: how the dispatch callback ended
    adm,                      \* per tick and agent: the task of agent.start(data)
    admNow,                   \* per tick and agent: the local `now` of start
    last_execution_time,      \* per agent: _last_execution_time ({} for None)
    lastRunAdmit              \* history: per agent, `now` of its latest executed run

hubVars == <<toAdd, added, trading_client, agent_bus, event_agents, periodic_agents,
             subscribed_quotes, pcStart, stream_subs, loop, wake, activeRuns,
             lastOutcome, dispatched>>

agentVars == <<clock, adm, admNow, last_execution_time, lastRunAdmit>>

VARIABLES
    cache,                    \* DataCache._cache: node (sequence of keys) -> content
    storeOp,                  \* the last DataCache call and what it returned
    storeCount,               \* how many DataCache calls were made
    written                   \* history: the key sequences set() has stored at

storeVars == <<cache, storeOp, storeCount, written>>

VARIABLES
    cancel_requested,         \* history: the task of start() was cancelled
    loop_tasks                \* per agent: the loop tasks start() created for it

stopVars == <<cancel_requested, loop_tasks>>

VARIABLES
    time_str,                 \* the argument of the last _parse_time_string call
    parse_result              \* what that call returned or raised

parseVars == <<time_str, parse_result>>

VARIABLES
    caller                    \* per bus call: the call and listener whose body awaits it

nestVars == <<caller>>

vars == <<busVars, hubVars, agentVars, storeVars, stopVars, nestVars, parseVars>>

\* Calls are issued in the order of their identifiers: the identifier of a call
\* is only its name (and, for a publish, the value it publishes).
CanCall(c) == pc[c] = "idle" /\ \A d \in Calls : d < c => pc[d] # "idle"

NoOp == [kind |-> "none", topic |-> "-", listener |-> "-"]
NoInv == [l \in Listeners |-> "none"]

\* subscription_repository.get(topic_name, set())
Subs(t) ==
    IF t \in DOMAIN subscription_repository THEN subscription_repository[t] ELSE {}

\* AddListener on a bus that keeps one set of listeners for all its topics.
AddListenerAllTopics(t, l) ==
    [x \in DOMAIN subscription_repository \cup {t} |->
        (IF x \in DOMAIN subscription_repository
         THEN subscription_repository[x] ELSE {}) \cup {l}]

\* subscription_repository.setdefault(topic_name, set()).add(listener)
AddListener(t, l) ==
    [x \in DOMAIN subscription_repository \cup {t} |->
        IF x = t THEN Subs(t) \cup {l} ELSE subscription_repository[x]]

\* last_value_repository[topic_name] = value
SetLast(t, v) ==
    [x \in DOMAIN last_value_repository \cup {t} |->
        IF x = t THEN v ELSE last_value_repository[x]]

\* The fan-out loop of publish over `ls`, iterated in some order.  `raiser` is
\* the synchronous listener whose call raises ("-" when none does) and
\* `before` the listeners iterated before it.  A synchronous listener is
\* called in the loop; for a coroutine function the loop only creates the
\* coroutine object ("coro"), which runs once gather schedules it.
FanOut(ls, raiser, before) ==
    [l \in Listeners |->
        IF l \notin ls THEN "none"
        ELSE IF raiser = "-" THEN (IF IsAsync(l) THEN "scheduled" ELSE "done")
        ELSE IF l = raiser THEN "raised"
        ELSE IF l \in before THEN (IF IsAsync(l) THEN "coro" ELSE "done")
        ELSE "none"]

\* What the code after the loop does with the loop's result.
AfterFanOut(ls, raiser) ==
    IF raiser # "-" THEN "raised"
    ELSE IF \E l \in ls : IsAsync(l) THEN "gather"
    ELSE "returned"

\* No call is made from a listener's body yet.
NestInit == caller = [c \in AllCalls |-> <<>>]

\* The body of listener l, invoked by call c, awaits a bus call it made.
BodyAwaits(c, l) ==
    \E d \in AllCalls : caller[d] = <<c, l>> /\ pc[d] \notin {"returned", "raised"}

BusInit ==
    /\ variant \in {"plain", "stateful"}
    /\ subscription_repository = [t \in {} |-> {}]
    /\ last_value_repository = [t \in {} |-> 0]
    /\ lockQueue = <<>>
    /\ pc = [c \in AllCalls |-> "idle"]
    /\ op = [c \in AllCalls |-> NoOp]
    /\ listeners = [c \in AllCalls |-> {}]
    /\ inv = [c \in AllCalls |-> NoInv]
    /\ replay = [c \in AllCalls |-> {}]
    /\ order = <<>>

(***************************************************************************)
(* subscribe_listener, both variants: the call reaches `async with         *)
(* self._lock` and queues for the lock (asyncio.Lock wakes waiters FIFO).  *)
(***************************************************************************)
CallSubscribe(c, t, l) ==
    /\ CanCall(c)
    /\ pc' = [pc EXCEPT ![c] = "wait_lock"]
    /\ op' = [op EXCEPT ![c] = [kind |-> "sub", topic |-> t, listener |-> l]]
    /\ lockQueue' = Append(lockQueue, c)
    /\ UNCHANGED <<variant, subscription_repository, last_value_repository,
                   listeners, inv, replay, order>>

\* subscribe_listener called again with a topic and a listener that an earlier
\* call was already made with (that call may still be waiting for the lock).
CallResubscribe(c, t, l) ==
    /\ c \in ResubCalls /\ pc[c] = "idle"
    /\ \E d \in Calls : op[d] = [kind |-> "sub", topic |-> t, listener |-> l]
    /\ pc' = [pc EXCEPT ![c] = "wait_lock"]
    /\ op' = [op EXCEPT ![c] = [kind |-> "sub", topic |-> t, listener |-> l]]
    /\ lockQueue' = Append(lockQueue, c)
    /\ UNCHANGED <<variant, subscription_repository, last_value_repository,
                   listeners, inv, replay, order>>

\* CommunicationBus.subscribe_listener under the lock.
PlainSubscribeEnter(c) ==
    /\ variant = "plain"
    /\ pc[c] = "wait_lock" /\ op[c].kind = "sub"
    /\ lockQueue # <<>> /\ Head(lockQueue) = c
    /\ subscription_repository' = AddListener(op[c].topic, op[c].listener)
    /\ lockQueue' = Tail(lockQueue)
    /\ pc' = [pc EXCEPT ![c] = "returned"]
    /\ order' = Append(order, c)
    /\ UNCHANGED <<variant, last_value_repository, op, listeners, inv, replay>>

\* StatefulSubscribeEnter without the replay: the new listener is added and
\* the call returns, as on the plain bus.
StatefulSubscribeEnterNoReplay(c) ==
    /\ variant = "stateful"
    /\ pc[c] = "wait_lock" /\ op[c].kind = "sub"
    /\ lockQueue # <<>> /\ Head(lockQueue) = c
    /\ order' = Append(order, c)
    /\ subscription_repository' = AddListener(op[c].topic, op[c].listener)
    /\ pc' = [pc EXCEPT ![c] = "returned"]
    /\ lockQueue' = Tail(lockQueue)
    /\ UNCHANGED <<variant, last_value_repository, op, listeners, inv, replay>>

\* StatefulCommunicationBus.subscribe_listener under the lock, up to the
\* await of an asynchronous listener's replay.
StatefulSubscribeEnter(c) ==
    /\ variant = "stateful"
    /\ pc[c] = "wait_lock" /\ op[c].kind = "sub"
    /\ lockQueue # <<>> /\ Head(lockQueue) = c
    /\ order' = Append(order, c)
    /\ LET t == op[c].topic
           l == op[c].listener
       IN IF l \in Subs(t)
          THEN /\ pc' = [pc EXCEPT ![c] = "returned"]
               /\ lockQueue' = Tail(lockQueue)
               /\ UNCHANGED <<subscription_repository, inv, replay>>
          ELSE /\ subscription_repository' = AddListener(t, l)
               /\ IF t \in DOMAIN last_value_repository
                  THEN /\ replay' = [replay EXCEPT ![c] = {last_value_repository[t]}]
                       /\ IF IsAsync(l)
                          THEN /\ inv' = [inv EXCEPT ![c][l] = "running"]
                               /\ pc' = [pc EXCEPT ![c] = "replay"]
                               /\ UNCHANGED lockQueue
                          ELSE \E res \in {"done", "raised"} :
                               /\ inv' = [inv EXCEPT ![c][l] = res]
                               /\ pc' = [pc EXCEPT ![c] =
                                            IF res = "done" THEN "returned" ELSE "raised"]
                               /\ lockQueue' = Tail(lockQueue)
                  ELSE /\ pc' = [pc EXCEPT ![c] = "returned"]
                       /\ lockQueue' = Tail(lockQueue)
                       /\ UNCHANGED <<inv, replay>>
    /\ UNCHANGED <<variant, last_value_repository, op, listeners>>

\* The awaited replay to an asynchronous listener ends; the lock is released
\* on the way out of `async with`, also when the listener raised.
ReplayFinish(c) ==
    /\ pc[c] = "replay"
    /\ ~BodyAwaits(c, op[c].listener)
    /\ \E res \in {"done", "raised"} :
        /\ inv' = [inv EXCEPT ![c][op[c].listener] = res]
        /\ pc' = [pc EXCEPT ![c] = IF res = "done" THEN "returned" ELSE "raised"]
    /\ lockQueue' = Tail(lockQueue)
    /\ UNCHANGED <<variant, subscription_repository, last_value_repository,
                   op, listeners, replay, order>>

(***************************************************************************)
(* publish.  The value published by call c is c itself, so that every      *)
(* publish is a distinct logical event.                                    *)
(***************************************************************************)
\* PlainPublish reading the listeners with setdefault instead of get: a
\* publish on a topic nobody subscribed to leaves an empty entry behind.
PlainPublishSetdefault(c, t) ==
    /\ variant = "plain"
    /\ CanCall(c)
    /\ op' = [op EXCEPT ![c] = [kind |-> "pub", topic |-> t, listener |-> "-"]]
    /\ order' = Append(order, c)
    /\ subscription_repository' =
          [x \in DOMAIN subscription_repository \cup {t} |-> Subs(x)]
    /\ LET ls == Subs(t)
       IN /\ listeners' = [listeners EXCEPT ![c] = ls]
          /\ IF ls = {}
             THEN /\ pc' = [pc EXCEPT ![c] = "returned"]
                  /\ UNCHANGED inv
             ELSE \E raiser \in {l \in ls : ~IsAsync(l)} \cup {"-"} :
                  \E before \in SUBSET (ls \ {raiser}) :
                    /\ inv' = [inv EXCEPT ![c] = FanOut(ls, raiser, before)]
                    /\ pc' = [pc EXCEPT ![c] = AfterFanOut(ls, raiser)]
    /\ UNCHANGED <<variant, last_value_repository, lockQueue, replay>>

\* CommunicationBus.publish up to its await: no lock is taken.
PlainPublish(c, t) ==
    /\ variant = "plain"
    /\ CanCall(c)
    /\ op' = [op EXCEPT ![c] = [kind |-> "pub", topic |-> t, listener |-> "-"]]
    /\ order' = Append(order, c)
    /\ LET ls == Subs(t)
       IN /\ listeners' = [listeners EXCEPT ![c] = ls]
          /\ IF ls = {}
             THEN /\ pc' = [pc EXCEPT ![c] = "returned"]
                  /\ UNCHANGED inv
             ELSE \E raiser \in {l \in ls : ~IsAsync(l)} \cup {"-"} :
                  \E before \in SUBSET (ls \ {raiser}) :
                    /\ inv' = [inv EXCEPT ![c] = FanOut(ls, raiser, before)]
                    /\ pc' = [pc EXCEPT ![c] = AfterFanOut(ls, raiser)]
    /\ UNCHANGED <<variant, subscription_repository, last_value_repository,
                   lockQueue, replay>>

\* StatefulCommunicationBus.publish reaches `async with self._lock`.
CallPublish(c, t) ==
    /\ variant = "stateful"
    /\ CanCall(c)
    /\ pc' = [pc EXCEPT ![c] = "wait_lock"]
    /\ op' = [op EXCEPT ![c] = [kind |-> "pub", topic |-> t, listener |-> "-"]]
    /\ lockQueue' = Append(lockQueue, c)
    /\ UNCHANGED <<variant, subscription_repository, last_value_repository,
                   listeners, inv, replay, order>>

\* StatefulPublishEnter with the assignment to last_value_repository moved
\* behind the fan-out loop: a publish that returns early or whose loop raises
\* records nothing.
StatefulPublishEnterRecordLast(c) ==
    /\ variant = "stateful"
    /\ pc[c] = "wait_lock" /\ op[c].kind = "pub"
    /\ lockQueue # <<>> /\ Head(lockQueue) = c
    /\ order' = Append(order, c)
    /\ lockQueue' = Tail(lockQueue)
    /\ LET ls == Subs(op[c].topic)
       IN /\ listeners' = [listeners EXCEPT ![c] = ls]
          /\ IF ls = {}
             THEN /\ pc' = [pc EXCEPT ![c] = "returned"]
                  /\ UNCHANGED <<inv, last_value_repository>>
             ELSE \E raiser \in {l \in ls : ~IsAsync(l)} \cup {"-"} :
                  \E before \in SUBSET (ls \ {raiser}) :
                    /\ inv' = [inv EXCEPT ![c] = FanOut(ls, raiser, before)]
                    /\ pc' = [pc EXCEPT ![c] = AfterFanOut(ls, raiser)]
                    /\ last_value_repository' =
                          IF raiser = "-" THEN SetLast(op[c].topic, c)
                          ELSE last_value_repository
    /\ UNCHANGED <<variant, subscription_repository, op, replay>>

\* StatefulCommunicationBus.publish under the lock; the lock is released
\* before gather, and on the early return and on a raise as well.
StatefulPublishEnter(c) ==
    /\ variant = "stateful"
    /\ pc[c] = "wait_lock" /\ op[c].kind = "pub"
    /\ lockQueue # <<>> /\ Head(lockQueue) = c
    /\ order' = Append(order, c)
    /\ last_value_repository' = SetLast(op[c].topic, c)
    /\ lockQueue' = Tail(lockQueue)
    /\ LET ls == Subs(op[c].topic)
       IN /\ listeners' = [listeners EXCEPT ![c] = ls]
          /\ IF ls = {}
             THEN /\ pc' = [pc EXCEPT ![c] = "returned"]
                  /\ UNCHANGED inv
             ELSE \E raiser \in {l \in ls : ~IsAsync(l)} \cup {"-"} :
                  \E before \in SUBSET (ls \ {raiser}) :
                    /\ inv' = [inv EXCEPT ![c] = FanOut(ls, raiser, before)]
                    /\ pc' = [pc EXCEPT ![c] = AfterFanOut(ls, raiser)]
    /\ UNCHANGED <<variant, subscription_repository, op, replay>>

\* The body of call c ran before the body of call d.
RanBefore(c, d) ==
    \E i, j \in 1 .. Len(order) : i < j /\ order[i] = c /\ order[j] = d

\* A coroutine that gather wrapped in a task starts to run: the listener is
\* invoked.  The event loop starts tasks in the order of their creation
\* (call_soon is FIFO), and a publish calls gather in the step in which its
\* body runs: the tasks of an earlier publish start first.
ListenerStart(c, l) ==
    /\ inv[c][l] = "scheduled"
    /\ ~\E d \in AllCalls, k \in Listeners :
            inv[d][k] = "scheduled" /\ RanBefore(d, c)
    /\ inv' = [inv EXCEPT ![c][l] = "running"]
    /\ UNCHANGED <<variant, subscription_repository, last_value_repository,
                   lockQueue, pc, op, listeners, replay, order>>

\* A gathered listener ends.  gather (return_exceptions is not set) hands the
\* first exception to the awaiting publish at once and leaves the other
\* listeners running; it returns once all have ended normally.
ListenerFinish(c, l) ==
    /\ op[c].kind = "pub"
    /\ inv[c][l] = "running"
    /\ ~BodyAwaits(c, l)
    /\ \E res \in {"done", "raised"} :
        /\ inv' = [inv EXCEPT ![c][l] = res]
        /\ pc' = [pc EXCEPT ![c] =
                IF pc[c] # "gather" THEN pc[c]
                ELSE IF res = "raised" THEN "raised"
                ELSE IF \A k \in listeners[c] \ {l} : inv[c][k] = "done"
                     THEN "returned"
                ELSE "gather"]
    /\ UNCHANGED <<variant, subscription_repository, last_value_repository,
                   lockQueue, op, listeners, replay, order>>

\* The body of an asynchronous listener, running for the replay or the
\* delivery of call c, awaits bus.publish(t, d).
ListenerCallsPublish(c, l, d, t) ==
    /\ inv[c][l] = "running" /\ IsAsync(l)
    /\ ~BodyAwaits(c, l)
    /\ CallPublish(d, t)
    /\ caller' = [caller EXCEPT ![d] = <<c, l>>]

\* The body of an asynchronous listener, running for the replay or the
\* delivery of call c, awaits bus.subscribe_listener(t, l2).
ListenerCallsSubscribe(c, l, d, t, l2) ==
    /\ variant = "stateful"
    /\ inv[c][l] = "running" /\ IsAsync(l)
    /\ ~BodyAwaits(c, l)
    /\ CallSubscribe(d, t, l2)
    /\ caller' = [caller EXCEPT ![d] = <<c, l>>]

BusNext ==
    \/ \E c \in Calls, t \in Topics, l \in Listeners :
            CallSubscribe(c, t, l) /\ UNCHANGED <<hubVars, agentVars, storeVars, stopVars, nestVars, parseVars>>
    \/ \E c \in Calls : PlainSubscribeEnter(c) /\ UNCHANGED <<hubVars, agentVars, storeVars, stopVars, nestVars, parseVars>>
    \/ \E c \in Calls : StatefulSubscribeEnter(c) /\ UNCHANGED <<hubVars, agentVars, storeVars, stopVars, nestVars, parseVars>>
    \/ \E c \in Calls : ReplayFinish(c) /\ UNCHANGED <<hubVars, agentVars, storeVars, stopVars, nestVars, parseVars>>
    \/ \E c \in Calls, t \in Topics :
            PlainPublish(c, t) /\ UNCHANGED <<hubVars, agentVars, storeVars, stopVars, nestVars, parseVars>>
    \/ \E c \in Calls, t \in Topics :
            CallPublish(c, t) /\ UNCHANGED <<hubVars, agentVars, storeVars, stopVars, nestVars, parseVars>>
    \/ \E c \in Calls : StatefulPublishEnter(c) /\ UNCHANGED <<hubVars, agentVars, storeVars, stopVars, nestVars, parseVars>>
    \/ \E c \in Calls, l \in Listeners :
            ListenerStart(c, l) /\ UNCHANGED <<hubVars, agentVars, storeVars, stopVars, nestVars, parseVars>>
    \/ \E c \in Calls, l \in Listeners :
            ListenerFinish(c, l) /\ UNCHANGED <<hubVars, agentVars, storeVars, stopVars, nestVars, parseVars>>

\* The steps by which a call that was made goes on: it gets the lock, its
\* listeners start and end.
BusProgress ==
    \/ \E c \in Calls : StatefulSubscribeEnter(c) /\ UNCHANGED <<hubVars, agentVars, storeVars, stopVars, nestVars, parseVars>>
    \/ \E c \in Calls : ReplayFinish(c) /\ UNCHANGED <<hubVars, agentVars, storeVars, stopVars, nestVars, parseVars>>
    \/ \E c \in Calls : StatefulPublishEnter(c) /\ UNCHANGED <<hubVars, agentVars, storeVars, stopVars, nestVars, parseVars>>
    \/ \E c \in Calls, l \in Listeners :
            ListenerStart(c, l) /\ UNCHANGED <<hubVars, agentVars, storeVars, stopVars, nestVars, parseVars>>
    \/ \E c \in Calls, l \in Listeners :
            ListenerFinish(c, l) /\ UNCHANGED <<hubVars, agentVars, storeVars, stopVars, nestVars, parseVars>>

(***************************************************************************)
(* Properties of the bus.                                                  *)
(***************************************************************************)
Terminated(c) == pc[c] \in {"returned", "raised"}

\* The place of call c in the order in which the bodies ran (0: not yet).
Pos(c) ==
    IF \E i \in 1 .. Len(order) : order[i] = c
    THEN CHOOSE i \in 1 .. Len(order) : order[i] = c
    ELSE 0

IsPub(c, t) == op[c].kind = "pub" /\ op[c].topic = t
IsSub(c, t, l) == op[c].kind = "sub" /\ op[c].topic = t /\ op[c].listener = l

\* The listener has been called, or is a task of gather that will be.
Delivered(c, l) == inv[c][l] \in {"scheduled", "running", "done", "raised"}
Invoked(c, l) == inv[c][l] \in {"running", "done", "raised"}
Completed(c, l) == inv[c][l] \in {"done", "raised"}

\* The value of the last publish on t whose body has run: {} or {v}.
LastPublished(t) ==
    LET ps == {i \in 1 .. Len(order) : IsPub(order[i], t)}
    IN IF ps = {} THEN {}
       ELSE {order[CHOOSE i \in ps : \A j \in ps : j <= i]}

\* Subscribe call s is the first to subscribe its listener to its topic.
FreshSub(s) ==
    \A s2 \in Calls \ {s} :
        (IsSub(s2, op[s].topic, op[s].listener) /\ Pos(s2) > 0) => Pos(s) < Pos(s2)

\* Publish p was overwritten by a later publish before subscribe s ran.
Superseded(p, s) ==
    \E p2 \in Calls : /\ IsPub(p2, op[p].topic)
                      /\ Pos(p) < Pos(p2) /\ Pos(p2) < Pos(s)

\* C1: on the stateful bus, a subscribe(T, L) by a listener L not yet
\* subscribed and a publish(T, v), in whichever order they take the lock,
\* leave L invoked with v exactly once: by the replay inside subscribe or by
\* the live delivery of the publish, never both and never neither.
C1_ExactlyOnce ==
    \A s \in Calls, p \in Calls :
        ( /\ variant = "stateful"
          /\ op[s].kind = "sub" /\ IsPub(p, op[s].topic)
          /\ Terminated(s) /\ Terminated(p)
          /\ FreshSub(s) /\ ~Superseded(p, s) )
        => LET live == Delivered(p, op[s].listener)
               rep == replay[s] = {p}
           IN (live \/ rep) /\ ~(live /\ rep)

\* C3: when a listener raises during publish(T, v), every other listener
\* that was subscribed to T at that publish is still invoked with v.
C3_Isolation ==
    \A p \in Calls :
        ( /\ op[p].kind = "pub" /\ Terminated(p)
          /\ \E l \in listeners[p] : inv[p][l] = "raised" )
        => \A k \in listeners[p] : Delivered(p, k)

\* C4: publish returns normally to its caller whatever a listener does.
C4_PublishReturns ==
    \A p \in Calls : op[p].kind = "pub" => pc[p] # "raised"

\* C8: a subscribe(T, L) by a new listener on the stateful bus invokes L with
\* the value of the last publish on T within the subscribe call, which
\* returns only after that invocation has completed; when T was never
\* published to, the subscribe invokes nobody.
C8_Replay ==
    [][ /\ \A c \in Calls :
            ( /\ variant = "stateful" /\ op[c].kind = "sub"
              /\ pc[c] = "wait_lock" /\ pc'[c] # "wait_lock"
              /\ op[c].listener \notin Subs(op[c].topic) )
            => /\ replay'[c] = LastPublished(op[c].topic)
               /\ IF LastPublished(op[c].topic) = {}
                  THEN inv'[c] = NoInv
                  ELSE Invoked(c, op[c].listener)'
        /\ \A c \in Calls :
            (variant' = "stateful" /\ op'[c].kind = "sub") =>
                /\ (pc'[c] = "returned" /\ replay'[c] # {})
                        => inv'[c][op'[c].listener] = "done"
                /\ replay'[c] = {} => inv'[c] = NoInv
      ]_vars

C8_Witness ==
    \E c \in Calls :
        /\ variant = "stateful" /\ op[c].kind = "sub" /\ IsAsync(op[c].listener)
        /\ pc[c] = "returned" /\ replay[c] # {}
        /\ \E d \in Calls : IsSub(d, "T2", "s1") /\ pc[d] = "returned" /\ replay[d] = {}

\* C9: a plain-bus publish(T, v) invokes every listener subscribed to T when
\* it starts, and is over only after each of those invocations has completed.
C9_PublishCompletes ==
    \A p \in Calls :
        (variant = "plain" /\ op[p].kind = "pub" /\ Terminated(p))
        => \A l \in listeners[p] : Completed(p, l)

\* C10: a plain-bus publish on a topic without subscribers returns normally,
\* invokes no listener and leaves the bus as it was; nothing is retained, so
\* a later subscribe on the plain bus invokes nobody.
C10_EmptyPublish ==
    [][ \A c \in Calls :
          /\ ( /\ variant = "plain" /\ pc[c] = "idle" /\ op'[c].kind = "pub"
               /\ Subs(op'[c].topic) = {} )
             => /\ pc'[c] = "returned"
                /\ inv' = inv
                /\ UNCHANGED <<subscription_repository, last_value_repository,
                               lockQueue, replay>>
          /\ ( /\ variant = "plain" /\ op[c].kind = "sub"
               /\ pc[c] = "wait_lock" /\ pc'[c] # "wait_lock" )
             => /\ pc'[c] = "returned"
                /\ inv' = inv /\ replay' = replay
                /\ last_value_repository' = last_value_repository
      ]_vars

C10_Witness ==
    \E p \in Calls, s \in Calls :
        /\ variant = "plain"
        /\ op[p].kind = "pub" /\ listeners[p] = {} /\ pc[p] = "returned"
        /\ op[s].kind = "sub" /\ op[s].topic = op[p].topic /\ pc[s] = "returned"
        /\ Pos(p) < Pos(s)

\* Subscribe call s runs when an earlier call has subscribed its listener to
\* its topic already.
Resubscribe(s) ==
    /\ op[s].kind = "sub" /\ Pos(s) > 0
    /\ \E s0 \in AllCalls \ {s} :
          /\ IsSub(s0, op[s].topic, op[s].listener)
          /\ 0 < Pos(s0) /\ Pos(s0) < Pos(s)

\* Every publish that ran after a repeated subscribe(T, L) and is over has
\* invoked L.
InvokedAfterResubscribe ==
    \A s \in AllCalls, p \in AllCalls :
        ( /\ Resubscribe(s) /\ Terminated(s)
          /\ IsPub(p, op[s].topic) /\ Pos(s) < Pos(p) /\ Terminated(p) )
        => /\ op[s].listener \in listeners[p]
           /\ Delivered(p, op[s].listener)

\* C11: on both buses a subscribe(T, L) that finds L subscribed to T already
\* changes nothing: the subscriptions stay as they are, the call invokes
\* nobody (no second replay) and returns; every publish on T after it invokes
\* L, once (the invocations of one publish are one per member of a set).
C11_Resubscribe ==
    [][ /\ \A c \in AllCalls :
            ( /\ op[c].kind = "sub"
              /\ pc[c] = "wait_lock" /\ pc'[c] # "wait_lock"
              /\ op[c].listener \in Subs(op[c].topic) )
            => /\ subscription_repository' = subscription_repository
               /\ inv' = inv /\ replay' = replay
               /\ pc'[c] = "returned"
        /\ InvokedAfterResubscribe'
      ]_vars

\* C37: on the stateful bus a call that was made and has not ended can
\* always go on, or a listener it awaits can: no state is reached in which a
\* call waits and no call or listener can take a step.
C37_NoDeadlock ==
    (variant = "stateful" /\ \E c \in Calls : pc[c] \in {"wait_lock", "replay", "gather"})
    => ENABLED BusProgress

\* The calls that handed topic t's value to listener l: the publishes that
\* invoked it and the subscribe that replayed to it.
Deliveries(l, t) ==
    {c \in AllCalls : /\ op[c].topic = t /\ Invoked(c, l)
                      /\ op[c].kind = "sub" => (op[c].listener = l /\ replay[c] # {})}

\* The value the call handed over: a publish its own, a subscribe the replayed.
ValueOf(c) == IF op[c].kind = "pub" THEN {c} ELSE replay[c]

\* Every call that was made has ended and no listener invocation is pending.
Quiescent ==
    /\ \A c \in AllCalls : pc[c] \in {"idle", "returned", "raised"}
    /\ \A c \in AllCalls, l \in Listeners : inv[c][l] \notin {"scheduled", "running"}

\* A listener's invocations for one topic begin in the order in which the
\* publishes recorded their values.
InOrder ==
    \A c1 \in Calls, c2 \in Calls, l \in Listeners :
        ( /\ op[c1].kind = "pub" /\ IsPub(c2, op[c1].topic)
          /\ RanBefore(c1, c2) /\ Invoked(c2, l) )
        => inv[c1][l] # "scheduled"

\* C38: on the stateful bus a listener's invocations for a topic begin in
\* the order in which the values became the topic's last value, and when all
\* calls are over every subscriber of the topic was last handed the topic's
\* last value.
C38_DeliveryOrder ==
    variant = "stateful" =>
        /\ InOrder
        /\ Quiescent =>
              \A t \in DOMAIN last_value_repository : \A l \in Subs(t) :
                  LET ds == Deliveries(l, t)
                  IN /\ ds # {}
                     /\ \A c \in ds :
                           (\A d \in ds \ {c} : RanBefore(d, c))
                           => ValueOf(c) = {last_value_repository[t]}

\* C39: the step in which the body of a publish or subscribe on topic T
\* runs leaves the subscription set and the last value of every other topic
\* as they were; a publish changes no subscription set and hands its value
\* only to listeners subscribed to T, a subscribe changes no last value and
\* invokes no listener but its own; no other step changes either repository,
\* and no last value is ever removed.
C39_TopicIsolation ==
    [][ /\ \A c \in Calls :
            (order' = Append(order, c)) =>
                /\ \A t \in Topics \ {op'[c].topic} :
                      /\ t \in DOMAIN subscription_repository'
                            <=> t \in DOMAIN subscription_repository
                      /\ t \in DOMAIN subscription_repository
                            => subscription_repository'[t] = subscription_repository[t]
                      /\ t \in DOMAIN last_value_repository'
                            <=> t \in DOMAIN last_value_repository
                      /\ t \in DOMAIN last_value_repository
                            => last_value_repository'[t] = last_value_repository[t]
                /\ op'[c].kind = "pub" =>
                      /\ subscription_repository' = subscription_repository
                      /\ listeners'[c] = Subs(op'[c].topic)
                /\ op'[c].kind = "sub" =>
                      /\ last_value_repository' = last_value_repository
                      /\ \A l \in Listeners \ {op'[c].listener} : inv'[c][l] = "none"
        /\ order' = order =>
                /\ subscription_repository' = subscription_repository
                /\ last_value_repository' = last_value_repository
        /\ DOMAIN last_value_repository \subseteq DOMAIN last_value_repository'
        /\ \A c \in Calls, l \in Listeners :
                (op'[c].kind = "pub" /\ inv'[c][l] # "none") => l \in listeners'[c]
      ]_vars

C39_Witness ==
    /\ variant = "stateful"
    /\ Subs("T1") = {"a1"} /\ Subs("T2") = {"s1"}
    /\ DOMAIN last_value_repository = {"T1"}
    /\ \E c \in Calls :
            IsPub(c, "T1") /\ inv[c]["a1"] = "done" /\ inv[c]["s1"] = "none"

\* C12: the step in which a stateful publish(T, v) takes the lock leaves v as
\* the last value of T, with subscribers or without and however the fan-out
\* ends; as long as the publish has not taken that step, it has invoked
\* nobody.
C12_RecordedFirst ==
    [][ \A p \in Calls :
          (variant = "stateful" /\ op'[p].kind = "pub") =>
              /\ (pc[p] = "wait_lock" /\ pc'[p] # "wait_lock")
                    => /\ op[p].topic \in DOMAIN last_value_repository'
                       /\ last_value_repository'[op[p].topic] = p
              /\ pc'[p] \in {"idle", "wait_lock"} => inv'[p] = NoInv
      ]_vars

C12_Witness ==
    \E p \in Calls, q \in Calls :
        /\ variant = "stateful" /\ IsPub(p, "T1") /\ IsPub(q, "T2")
        /\ pc[p] = "returned" /\ listeners[p] = {}
        /\ pc[q] = "raised" /\ listeners[q] # {}
        /\ last_value_repository = [t \in {"T1", "T2"} |-> IF t = "T1" THEN p ELSE q]

(***************************************************************************)
(* The agents.  An agent is a TradingAgent subclass instance; what the hub *)
(* and the throttle read of it is fixed at construction.                   *)
(***************************************************************************)
Agents == {"e1", "e2", "e3", "p1", "p2", "x1"}
Symbols == {"AAPL", "MSFT", "TSLA"}
Ticks == 1 .. MaxTicks
TaskIds == 1 .. (IF MaxAdmits > MaxTicks THEN MaxAdmits ELSE MaxTicks)

\* self.agent_type
AgentType(a) == IF a \in {"p1", "p2"} THEN "periodic" ELSE "event_driven"

\* hasattr(agent, 'instruments') and agent.instruments: the symbols, or {}
Instruments(a) ==
    CASE a = "e1" -> {"AAPL"}
      [] a = "e2" -> {"AAPL", "MSFT"}
      [] a = "p1" -> {"TSLA"}
      [] OTHER -> {}

\* Whether the agent's class defines set_communication_bus, which add_agent
\* calls: the base class TradingAgent does not.
DefinesSetBus(a) == a # "x1"

\* The default throttle "1s", in the clock's units of half a second.
DefaultThrottle == 2

\* self.throttle, as set_throttle parsed it ("0s" for e3)
Throttle(a) == IF a = "e3" THEN 0 ELSE DefaultThrottle

InSeq(x, q) == \E i \in 1 .. Len(q) : q[i] = x

\* How often the agent occurs in the list.
Occurrences(a, q) == Cardinality({i \in 1 .. Len(q) : q[i] = a})

\* The main programs of the model: the add_agent calls made before start().
Scripts ==
    { <<"e1", "e2">>, <<"p1", "p2", "e3">>, <<"x1", "e2", "p1">>, <<"e3", "p2">> }

HubInit ==
    /\ toAdd = <<>>
    /\ added = [a \in Agents |-> "no"]
    /\ trading_client = {}
    /\ agent_bus = {}
    /\ event_agents = <<>>
    /\ periodic_agents = <<>>
    /\ subscribed_quotes = {}
    /\ pcStart = "created"
    /\ stream_subs = <<>>
    /\ loop = [a \in Agents |-> "none"]
    /\ wake = [a \in Agents |-> 0]
    /\ activeRuns = [a \in Agents |-> 0]
    /\ lastOutcome = [a \in Agents |-> "none"]
    /\ dispatched = [k \in TaskIds |-> "none"]

StopInit ==
    /\ cancel_requested = FALSE
    /\ loop_tasks = [a \in Agents |-> 0]

AgentInit ==
    /\ clock = 0
    /\ adm = [k \in TaskIds |-> [a \in Agents |-> "none"]]
    /\ admNow = [k \in TaskIds |-> [a \in Agents |-> 0]]
    /\ last_execution_time = [a \in Agents |-> {}]
    /\ lastRunAdmit = [a \in Agents |-> {}]

\* Time passes.
ClockAdvance ==
    /\ clock < MaxTime
    /\ clock' = clock + 1
    /\ UNCHANGED <<adm, admNow, last_execution_time, lastRunAdmit>>

(***************************************************************************)
(* TradingAgent.start(data), the throttled entry point, run as a task.     *)
(***************************************************************************)
\* Admission comparing with <= : an admit exactly one interval after the
\* last one is dropped.
AdmissionStrict(a, now) ==
    IF AgentType(a) = "periodic" THEN "returned"
    ELSE IF /\ last_execution_time[a] # {}
            /\ \E t \in last_execution_time[a] : now - t <= Throttle(a)
         THEN "dropped"
    ELSE "running"

\* Admission taking a throttle of zero for an unset one and using the default.
AdmissionZeroAsDefault(a, now) ==
    IF AgentType(a) = "periodic" THEN "returned"
    ELSE IF /\ last_execution_time[a] # {}
            /\ \E t \in last_execution_time[a] :
                    now - t < (IF Throttle(a) = 0 THEN DefaultThrottle ELSE Throttle(a))
         THEN "dropped"
    ELSE "running"

\* Admission behind a single-flight guard: an invocation is dropped while a
\* run of the same agent is in progress.
AdmissionSingleFlight(a, now) ==
    IF AgentType(a) = "periodic" THEN "returned"
    ELSE IF \/ /\ last_execution_time[a] # {}
               /\ \E t \in last_execution_time[a] : now - t < Throttle(a)
            \/ \E j \in TaskIds : adm[j][a] = "running"
         THEN "dropped"
    ELSE "running"

\* The outcome of the throttle check of start at time `now`.
Admission(a, now) ==
    IF AgentType(a) = "periodic" THEN "returned"
    ELSE IF /\ last_execution_time[a] # {}
            /\ \E t \in last_execution_time[a] : now - t < Throttle(a)
         THEN "dropped"
    ELSE "running"

\* The task starts: the code of start up to `await self.run(data)`.
AdmitStart(k, a) ==
    /\ adm[k][a] = "created"
    /\ adm' = [adm EXCEPT ![k][a] = Admission(a, clock)]
    /\ IF Admission(a, clock) = "running"
       THEN /\ admNow' = [admNow EXCEPT ![k][a] = clock]
            /\ lastRunAdmit' = [lastRunAdmit EXCEPT ![a] = {clock}]
       ELSE UNCHANGED <<admNow, lastRunAdmit>>
    /\ UNCHANGED <<clock, last_execution_time>>

\* RunFinish where a raising run takes the tick's other tasks down with it,
\* as a task group would.
RunFinishCancelling(k, a) ==
    /\ adm[k][a] = "running"
    /\ \E res \in {"done", "raised"} :
        /\ adm' = [adm EXCEPT ![k] = [b \in Agents |->
                IF b = a THEN res
                ELSE IF res = "raised" /\ adm[k][b] \in {"created", "running"}
                     THEN "cancelled"
                ELSE adm[k][b]]]
        /\ last_execution_time' =
                IF res = "done"
                THEN [last_execution_time EXCEPT ![a] = {admNow[k][a]}]
                ELSE last_execution_time
    /\ admNow' = [admNow EXCEPT ![k] = [b \in Agents |-> 0]]
    /\ UNCHANGED <<clock, lastRunAdmit>>

\* RunFinish with _last_execution_time as an attribute of the class, shared
\* by the agents, instead of one of the instance.
RunFinishSharedTime(k, a) ==
    /\ adm[k][a] = "running"
    /\ \E res \in {"done", "raised"} :
        /\ adm' = [adm EXCEPT ![k][a] = res]
        /\ last_execution_time' =
                IF res = "done"
                THEN [b \in Agents |-> {admNow[k][a]}]
                ELSE last_execution_time
    /\ admNow' = [admNow EXCEPT ![k][a] = 0]
    /\ UNCHANGED <<clock, lastRunAdmit>>

\* run(data) ends.  When it returns, start assigns _last_execution_time = now,
\* the time read before the run; when it raises, the exception ends the task
\* and the assignment is skipped.
RunFinish(k, a) ==
    /\ adm[k][a] = "running"
    /\ \E res \in {"done", "raised"} :
        /\ adm' = [adm EXCEPT ![k][a] = res]
        /\ last_execution_time' =
                IF res = "done"
                THEN [last_execution_time EXCEPT ![a] = {admNow[k][a]}]
                ELSE last_execution_time
    /\ admNow' = [admNow EXCEPT ![k][a] = 0]
    /\ UNCHANGED <<clock, lastRunAdmit>>

\* A caller other than the hub admits a tick to the one agent it drives:
\* asyncio.create_task(agent.start(data)).
DirectAdmit(k, a) ==
    /\ k \in 1 .. MaxAdmits
    /\ adm[k][a] = "none"
    /\ \A j \in TaskIds : j < k => adm[j][a] # "none"
    /\ \A j \in TaskIds, b \in Agents \ {a} : adm[j][b] = "none"
    /\ adm' = [adm EXCEPT ![k][a] = "created"]
    /\ UNCHANGED <<clock, admNow, last_execution_time, lastRunAdmit>>

(***************************************************************************)
(* TradingHub.                                                             *)
(***************************************************************************)
\* AddAgent merging the instruments of periodic agents as well.
AddAgentMergeAll(a) ==
    /\ pcStart = "created"
    /\ added[a] = "no"
    /\ trading_client' = trading_client \cup {a}
    /\ IF ~DefinesSetBus(a)
       THEN /\ added' = [added EXCEPT ![a] = "raised"]
            /\ UNCHANGED <<agent_bus, event_agents, periodic_agents, subscribed_quotes>>
       ELSE /\ added' = [added EXCEPT ![a] = "added"]
            /\ agent_bus' = agent_bus \cup {a}
            /\ subscribed_quotes' = subscribed_quotes \cup Instruments(a)
            /\ IF AgentType(a) = "periodic"
               THEN /\ periodic_agents' = Append(periodic_agents, a)
                    /\ UNCHANGED event_agents
               ELSE /\ event_agents' = Append(event_agents, a)
                    /\ UNCHANGED periodic_agents
    /\ UNCHANGED <<pcStart, stream_subs, loop, wake, activeRuns, lastOutcome,
                   dispatched>>

\* AddAgent putting the new agent at the head of its list.
AddAgentPrepend(a) ==
    /\ pcStart = "created"
    /\ added[a] = "no"
    /\ trading_client' = trading_client \cup {a}
    /\ IF ~DefinesSetBus(a)
       THEN /\ added' = [added EXCEPT ![a] = "raised"]
            /\ UNCHANGED <<agent_bus, event_agents, periodic_agents, subscribed_quotes>>
       ELSE /\ added' = [added EXCEPT ![a] = "added"]
            /\ agent_bus' = agent_bus \cup {a}
            /\ IF AgentType(a) = "periodic"
               THEN /\ periodic_agents' = <<a>> \o periodic_agents
                    /\ UNCHANGED <<event_agents, subscribed_quotes>>
               ELSE /\ event_agents' = <<a>> \o event_agents
                    /\ subscribed_quotes' = subscribed_quotes \cup Instruments(a)
                    /\ UNCHANGED periodic_agents
    /\ UNCHANGED <<pcStart, stream_subs, loop, wake, activeRuns, lastOutcome,
                   dispatched>>

\* add_agent(agent).  set_trading_client comes first; set_communication_bus is
\* an AttributeError on an agent whose class does not define it, and the
\* agent then reaches neither list.
AddAgent(a) ==
    /\ pcStart = "created"
    /\ added[a] = "no"
    /\ trading_client' = trading_client \cup {a}
    /\ IF ~DefinesSetBus(a)
       THEN /\ added' = [added EXCEPT ![a] = "raised"]
            /\ UNCHANGED <<agent_bus, event_agents, periodic_agents, subscribed_quotes>>
       ELSE /\ added' = [added EXCEPT ![a] = "added"]
            /\ agent_bus' = agent_bus \cup {a}
            /\ IF AgentType(a) = "periodic"
               THEN /\ periodic_agents' = Append(periodic_agents, a)
                    /\ UNCHANGED <<event_agents, subscribed_quotes>>
               ELSE /\ event_agents' = Append(event_agents, a)
                    /\ subscribed_quotes' = subscribed_quotes \cup Instruments(a)
                    /\ UNCHANGED periodic_agents
    /\ UNCHANGED <<pcStart, stream_subs, loop, wake, activeRuns, lastOutcome,
                   dispatched>>

\* The main program is chosen.
ChooseScript ==
    /\ toAdd = <<>> /\ pcStart = "created"
    /\ \A a \in Agents : added[a] = "no"
    /\ toAdd' \in Scripts
    /\ UNCHANGED <<added, trading_client, agent_bus, event_agents,
                   periodic_agents, subscribed_quotes, pcStart, stream_subs,
                   loop, wake, activeRuns, lastOutcome, dispatched>>

\* The main program makes its next add_agent call.
ScriptedAdd ==
    /\ toAdd # <<>>
    /\ AddAgent(Head(toAdd))
    /\ toAdd' = Tail(toAdd)

\* What subscribe_stock_quotes was called with: the handler and the symbols.
Subscription(handler, symbols) == [handler |-> handler, symbols |-> symbols]

\* Start without its guards before the subscription: the handler is
\* subscribed whether or not there are event-driven agents or instruments.
StartSubscribeUnguarded ==
    /\ pcStart = "created"
    /\ loop_tasks' = [a \in Agents |->
                    loop_tasks[a] + Occurrences(a, periodic_agents)]
    /\ loop' = [a \in Agents |->
            IF InSeq(a, periodic_agents) THEN "created" ELSE loop[a]]
    /\ stream_subs' = Append(stream_subs,
            Subscription("_aggregate_agent_listeners", subscribed_quotes))
    /\ pcStart' = "raised"
    /\ UNCHANGED <<toAdd, added, trading_client, agent_bus, event_agents,
                   periodic_agents, subscribed_quotes, wake, activeRuns,
                   lastOutcome, dispatched>>

\* Start subscribing every event-driven agent by itself, with the agent's own
\* start as the handler and the agent's own instruments.
StartSubscribePerAgent ==
    /\ pcStart = "created"
    /\ IF event_agents = <<>> /\ periodic_agents = <<>>
       THEN /\ pcStart' = "returned"
            /\ UNCHANGED <<loop, stream_subs, loop_tasks>>
       ELSE /\ loop_tasks' = [a \in Agents |->
                    loop_tasks[a] + Occurrences(a, periodic_agents)]
            /\ loop' = [a \in Agents |->
                    IF InSeq(a, periodic_agents) THEN "created" ELSE loop[a]]
            /\ IF event_agents # <<>> /\ subscribed_quotes # {}
               THEN /\ stream_subs' = stream_subs \o
                            [i \in 1 .. Len(event_agents) |->
                                Subscription(event_agents[i],
                                             Instruments(event_agents[i]))]
                    /\ pcStart' = "raised"
               ELSE /\ UNCHANGED stream_subs
                    /\ pcStart' = IF periodic_agents = <<>> THEN "returned"
                                  ELSE "gather"
    /\ UNCHANGED <<toAdd, added, trading_client, agent_bus, event_agents,
                   periodic_agents, subscribed_quotes, wake, activeRuns,
                   lastOutcome, dispatched>>

\* Start awaiting the loops in turn instead of creating a task for each and
\* gathering them: only the first periodic agent's loop ever begins.
StartLoopsInTurn ==
    /\ pcStart = "created"
    /\ IF event_agents = <<>> /\ periodic_agents = <<>>
       THEN /\ pcStart' = "returned"
            /\ UNCHANGED <<loop, stream_subs, loop_tasks>>
       ELSE /\ loop_tasks' = [a \in Agents |->
                    IF periodic_agents # <<>> /\ a = Head(periodic_agents)
                    THEN loop_tasks[a] + 1 ELSE loop_tasks[a]]
            /\ loop' = [a \in Agents |->
                    IF periodic_agents # <<>> /\ a = Head(periodic_agents)
                    THEN "created" ELSE loop[a]]
            /\ IF event_agents # <<>> /\ subscribed_quotes # {}
               THEN /\ stream_subs' = Append(stream_subs,
                            Subscription("_aggregate_agent_listeners",
                                         subscribed_quotes))
                    /\ pcStart' = "raised"
               ELSE /\ UNCHANGED stream_subs
                    /\ pcStart' = IF periodic_agents = <<>> THEN "returned"
                                  ELSE "gather"
    /\ UNCHANGED <<toAdd, added, trading_client, agent_bus, event_agents,
                   periodic_agents, subscribed_quotes, wake, activeRuns,
                   lastOutcome, dispatched>>

\* Start with the retry its docstring announces: the error of an iteration
\* is caught and the `while True` goes round again, creating the loop tasks
\* and subscribing the handler once more.
StartRetrying ==
    /\ pcStart \in {"created", "raised"}
    /\ Len(stream_subs) < 2
    /\ IF event_agents = <<>> /\ periodic_agents = <<>>
       THEN /\ pcStart' = "returned"
            /\ UNCHANGED <<loop, stream_subs, loop_tasks>>
       ELSE /\ loop_tasks' = [a \in Agents |->
                    loop_tasks[a] + Occurrences(a, periodic_agents)]
            /\ loop' = [a \in Agents |->
                    IF InSeq(a, periodic_agents) /\ loop[a] = "none"
                    THEN "created" ELSE loop[a]]
            /\ IF event_agents # <<>> /\ subscribed_quotes # {}
               THEN /\ stream_subs' = Append(stream_subs,
                            Subscription("_aggregate_agent_listeners",
                                         subscribed_quotes))
                    /\ pcStart' = "raised"
               ELSE /\ UNCHANGED stream_subs
                    /\ pcStart' = IF periodic_agents = <<>> THEN "returned"
                                  ELSE "gather"
    /\ UNCHANGED <<toAdd, added, trading_client, agent_bus, event_agents,
                   periodic_agents, subscribed_quotes, wake, activeRuns,
                   lastOutcome, dispatched>>

\* start(), up to `await asyncio.gather(*periodic_tasks)`.  The stream is
\* started with alpaca_market_data.start_stream(), a method AlpacaMarketData
\* does not have (it has start_streams): an AttributeError, raised after the
\* periodic tasks were created and the handler was subscribed.
Start ==
    /\ pcStart = "created"
    /\ IF event_agents = <<>> /\ periodic_agents = <<>>
       THEN /\ pcStart' = "returned"
            /\ UNCHANGED <<loop, stream_subs, loop_tasks>>
       ELSE /\ loop_tasks' = [a \in Agents |->
                    loop_tasks[a] + Occurrences(a, periodic_agents)]
            /\ loop' = [a \in Agents |->
                    IF InSeq(a, periodic_agents) THEN "created" ELSE loop[a]]
            /\ IF event_agents # <<>> /\ subscribed_quotes # {}
               THEN /\ stream_subs' = Append(stream_subs,
                            Subscription("_aggregate_agent_listeners",
                                         subscribed_quotes))
                    /\ pcStart' = "raised"
               ELSE /\ UNCHANGED stream_subs
                    /\ pcStart' = IF periodic_agents = <<>> THEN "returned"
                                  ELSE "gather"
    /\ UNCHANGED <<toAdd, added, trading_client, agent_bus, event_agents,
                   periodic_agents, subscribed_quotes, wake, activeRuns,
                   lastOutcome, dispatched>>

\* LoopRun that starts run() as a task of its own and goes on to sleep.
LoopRunDetached(a) ==
    /\ loop[a] \in {"created", "sleep"}
    /\ loop[a] = "sleep" => clock >= wake[a]
    /\ loop' = [loop EXCEPT ![a] = "sleep"]
    /\ wake' = [wake EXCEPT ![a] = clock + Throttle(a)]
    /\ activeRuns' = [activeRuns EXCEPT ![a] = IF @ < 2 THEN @ + 1 ELSE @]
    /\ UNCHANGED <<toAdd, added, trading_client, agent_bus, event_agents,
                   periodic_agents, subscribed_quotes, pcStart, stream_subs,
                   lastOutcome, dispatched>>

\* _periodic_agent_loop: the loop task starts, or its sleep is over, and it
\* calls `await agent.run()`.
LoopRun(a) ==
    /\ loop[a] \in {"created", "sleep"}
    /\ loop[a] = "sleep" => clock >= wake[a]
    /\ loop' = [loop EXCEPT ![a] = "run"]
    /\ wake' = [wake EXCEPT ![a] = 0]
    /\ activeRuns' = [activeRuns EXCEPT ![a] = @ + 1]
    /\ UNCHANGED <<toAdd, added, trading_client, agent_bus, event_agents,
                   periodic_agents, subscribed_quotes, pcStart, stream_subs,
                   lastOutcome, dispatched>>

\* LoopRunEnd without the try/except: the exception ends the loop task, and
\* gather hands it to start().
LoopRunEndUncaught(a) ==
    /\ loop[a] = "run"
    /\ activeRuns' = [activeRuns EXCEPT ![a] = @ - 1]
    /\ \E res \in {"ok", "raised"} :
        /\ lastOutcome' = [lastOutcome EXCEPT ![a] = res]
        /\ IF res = "ok"
           THEN /\ loop' = [loop EXCEPT ![a] = "sleep"]
                /\ wake' = [wake EXCEPT ![a] = clock + Throttle(a)]
                /\ UNCHANGED pcStart
           ELSE /\ loop' = [loop EXCEPT ![a] = "dead"]
                /\ pcStart' = IF pcStart = "gather" THEN "raised" ELSE pcStart
                /\ UNCHANGED wake
    /\ UNCHANGED <<toAdd, added, trading_client, agent_bus, event_agents,
                   periodic_agents, subscribed_quotes, stream_subs, dispatched>>

\* _periodic_agent_loop: run() ends, by returning or by raising an Exception,
\* which the loop catches and logs; then asyncio.sleep(throttle) begins.
LoopRunEnd(a) ==
    /\ loop[a] = "run"
    /\ activeRuns' = [activeRuns EXCEPT ![a] = @ - 1]
    /\ \E res \in {"ok", "raised"} :
        lastOutcome' = [lastOutcome EXCEPT ![a] = res]
    /\ loop' = [loop EXCEPT ![a] = "sleep"]
    /\ wake' = [wake EXCEPT ![a] = clock + Throttle(a)]
    /\ UNCHANGED <<toAdd, added, trading_client, agent_bus, event_agents,
                   periodic_agents, subscribed_quotes, pcStart, stream_subs,
                   dispatched>>

\* Dispatch as a callback that awaits the tasks it creates: the stream calls
\* it for the next tick only when the runs of the earlier ticks are over.
DispatchAwaitingRuns(k) ==
    /\ stream_subs # <<>>
    /\ dispatched[k] = "none"
    /\ \A j \in TaskIds : j < k => dispatched[j] # "none"
    /\ \A j \in TaskIds, a \in Agents :
            j < k => adm[j][a] \notin {"created", "running"}
    /\ dispatched' = [dispatched EXCEPT ![k] = "returned"]
    /\ adm' = [adm EXCEPT ![k] = [a \in Agents |->
                    IF InSeq(a, event_agents) THEN "created" ELSE adm[k][a]]]
    /\ UNCHANGED <<toAdd, added, trading_client, agent_bus, event_agents,
                   periodic_agents, subscribed_quotes, pcStart, stream_subs,
                   loop, wake, activeRuns, lastOutcome>>
    /\ UNCHANGED <<clock, admNow, last_execution_time, lastRunAdmit>>

\* _aggregate_agent_listeners(data), the handler subscribed on the stream,
\* called for tick k: one task per event-driven agent, none awaited.
Dispatch(k) ==
    /\ stream_subs # <<>>
    /\ dispatched[k] = "none"
    /\ \A j \in TaskIds : j < k => dispatched[j] # "none"
    /\ dispatched' = [dispatched EXCEPT ![k] = "returned"]
    /\ adm' = [adm EXCEPT ![k] = [a \in Agents |->
                    IF InSeq(a, event_agents) THEN "created" ELSE adm[k][a]]]
    /\ UNCHANGED <<toAdd, added, trading_client, agent_bus, event_agents,
                   periodic_agents, subscribed_quotes, pcStart, stream_subs,
                   loop, wake, activeRuns, lastOutcome>>
    /\ UNCHANGED <<clock, admNow, last_execution_time, lastRunAdmit>>

\* The task running start() is cancelled.  Awaiting gather, start gets the
\* CancelledError and gather cancels the loop tasks: the loops' `except
\* Exception` does not catch it, whether it arrives in run() or in the sleep.
\* Before its first step the task ends without running start.  When start
\* has already returned or raised, the task is done and cancel() does
\* nothing: start holds the only references to the loop tasks, and nothing in
\* the hub unsubscribes the handler from the stream.
CancelStart ==
    /\ ~cancel_requested
    /\ cancel_requested' = TRUE
    /\ IF pcStart = "gather"
       THEN /\ pcStart' = "cancelled"
            /\ loop' = [a \in Agents |->
                    IF loop[a] \in {"created", "sleep", "run"} THEN "cancelled"
                    ELSE loop[a]]
            /\ activeRuns' = [a \in Agents |->
                    IF loop[a] = "run" THEN 0 ELSE activeRuns[a]]
            /\ lastOutcome' = [a \in Agents |->
                    IF loop[a] = "run" THEN "cancelled" ELSE lastOutcome[a]]
            /\ loop_tasks' = [a \in Agents |-> 0]
       ELSE /\ pcStart' = IF pcStart = "created" THEN "cancelled" ELSE pcStart
            /\ UNCHANGED <<loop, activeRuns, lastOutcome, loop_tasks>>
    /\ UNCHANGED <<toAdd, added, trading_client, agent_bus, event_agents,
                   periodic_agents, subscribed_quotes, stream_subs, wake,
                   dispatched>>

\* Time passes at the end of the clock's range: the origin of time moves up
\* by one unit, so the pending wake-up times come one unit closer.  Used
\* where no admission time is recorded.
ClockRebase ==
    /\ clock = MaxTime
    /\ \E a \in Agents : wake[a] > clock
    /\ \A a \in Agents : last_execution_time[a] = {} /\ lastRunAdmit[a] = {}
    /\ wake' = [a \in Agents |-> IF wake[a] > 0 THEN wake[a] - 1 ELSE 0]
    /\ UNCHANGED <<toAdd, added, trading_client, agent_bus, event_agents,
                   periodic_agents, subscribed_quotes, pcStart, stream_subs,
                   loop, activeRuns, lastOutcome, dispatched>>
    /\ UNCHANGED <<clock, adm, admNow, last_execution_time, lastRunAdmit>>

(***************************************************************************)
(* Properties of the throttle and of the hub.                              *)
(***************************************************************************)
\* C2: for an event-driven agent with interval > 0, no two executed runs
\* come from admits whose admission times are less than the interval apart,
\* whatever the interleaving of the admits and the runs.
C2_BurstOnce ==
    [][ \A k \in TaskIds, a \in Agents :
          ( /\ adm[k][a] = "created" /\ adm'[k][a] = "running"
            /\ Throttle(a) > 0 )
          => \A t \in lastRunAdmit[a] : clock - t >= Throttle(a)
      ]_vars

\* C5: the dispatch callback creates the admit of the tick for every
\* registered event-driven agent and returns normally; a run that raises
\* touches neither the callback nor the other agents' admits of that tick,
\* which are never cancelled.
C5_FanOutIsolation ==
    [][ \A k \in Ticks :
          /\ (dispatched[k] = "none" /\ dispatched'[k] # "none")
             => /\ dispatched'[k] = "returned"
                /\ \A a \in Agents :
                      InSeq(a, event_agents) => adm'[k][a] = "created"
          /\ \A a \in Agents :
                /\ (adm[k][a] = "running" /\ adm'[k][a] = "raised")
                   => /\ dispatched' = dispatched
                      /\ \A b \in Agents \ {a} : adm'[k][b] = adm[k][b]
                /\ (adm[k][a] = "created" /\ adm'[k][a] # "created")
                   => adm'[k][a] \in {"running", "dropped"}
                /\ adm'[k][a] # "cancelled"
      ]_vars

C5_Witness ==
    \E k \in Ticks, a \in Agents, b \in Agents :
        /\ a # b /\ dispatched[k] = "returned"
        /\ Len(event_agents) >= 2
        /\ adm[k][a] = "raised" /\ adm[k][b] = "done"

\* C6: when a periodic agent's run ends, by returning or by raising, its loop
\* goes to sleep for one interval and then runs again; start() and the other
\* agents' loops are left as they were.
C6_LoopSurvives ==
    [][ \A a \in Agents :
          /\ (loop[a] = "run" /\ loop'[a] # "run")
             => /\ loop'[a] = "sleep"
                /\ wake'[a] = clock + Throttle(a)
                /\ lastOutcome'[a] \in {"ok", "raised"}
                /\ pcStart' = pcStart
                /\ \A b \in Agents \ {a} : loop'[b] = loop[b] /\ wake'[b] = wake[b]
          /\ (loop[a] = "sleep" /\ loop'[a] # "sleep")
             => (loop'[a] = "run" /\ clock >= wake[a])
          /\ loop'[a] # "dead"
      ]_vars

C6_Witness ==
    \E a \in Agents, b \in Agents :
        /\ a # b /\ pcStart = "gather"
        /\ lastOutcome[a] = "raised" /\ loop[a] = "run"
        /\ loop[b] \in {"run", "sleep"}

C18_StartKeepsRunning ==
    pcStart \in {"returned", "raised"}
    => /\ \A a \in Agents : loop[a] = "none"
       /\ stream_subs = <<>>

\* C19: start() on a hub without agents of either kind returns at once,
\* creates no periodic loop and subscribes nothing; nothing runs afterwards.
C19_NoAgents ==
    [][ /\ ( /\ pcStart = "created" /\ pcStart' # "created"
             /\ event_agents = <<>> /\ periodic_agents = <<>> )
           => /\ pcStart' = "returned"
              /\ loop' = loop /\ stream_subs' = stream_subs
        /\ ( /\ pcStart' = "returned"
             /\ event_agents' = <<>> /\ periodic_agents' = <<>> )
           => /\ \A a \in Agents : loop'[a] = "none"
              /\ stream_subs' = <<>>
              /\ \A k \in Ticks : dispatched'[k] = "none"
      ]_vars

C19_Witness ==
    /\ pcStart = "returned"
    /\ event_agents = <<>> /\ periodic_agents = <<>>
    /\ added["x1"] = "raised"

\* The instruments of the registered event-driven agents.
AggregateInstruments ==
    UNION {Instruments(event_agents[i]) : i \in 1 .. Len(event_agents)}

\* C20: start() subscribes on the stream once, with the dispatch callback
\* and exactly the instruments of the registered event-driven agents, when
\* there are any, and not at all when there are none; nothing else ever
\* subscribes, so no agent is subscribed by itself.
C20_SingleSubscription ==
    [][ /\ (pcStart = "created" /\ pcStart' # "created")
           => stream_subs' =
                IF AggregateInstruments # {}
                THEN <<Subscription("_aggregate_agent_listeners",
                                    AggregateInstruments)>>
                ELSE <<>>
        /\ ~(pcStart = "created" /\ pcStart' # "created")
           => stream_subs' = stream_subs
      ]_vars

C20_Witness ==
    /\ pcStart # "created"
    /\ Len(event_agents) = 2
    /\ stream_subs = <<Subscription("_aggregate_agent_listeners",
                                    {"AAPL", "MSFT"})>>

\* C23: start never drops an invocation of an event-driven agent that is the
\* agent's first executed one or that comes at least one interval after the
\* admission time of the last executed one: it runs it.
C23_NotOverThrottled ==
    [][ \A k \in TaskIds, a \in Agents :
          ( /\ adm[k][a] = "created" /\ adm'[k][a] # "created"
            /\ AgentType(a) = "event_driven"
            /\ \A t \in lastRunAdmit[a] : clock - t >= Throttle(a) )
          => adm'[k][a] = "running"
      ]_vars

C23_Witness ==
    /\ adm[1]["e1"] = "done" /\ adm[2]["e1"] = "running"
    /\ last_execution_time["e1"] = {0}
    /\ admNow[2]["e1"] = DefaultThrottle

\* C28: start sets _last_execution_time to the admission time of an
\* invocation it does not drop before the run begins, and the value stays
\* when the run raises.
C28_UpdatedBeforeRun ==
    [][ \A k \in TaskIds, a \in Agents :
          /\ (adm[k][a] = "created" /\ adm'[k][a] = "running")
                => last_execution_time'[a] = {clock}
          /\ (adm[k][a] = "running" /\ adm'[k][a] = "raised")
                => /\ last_execution_time'[a] = last_execution_time[a]
                   /\ admNow[k][a] \in last_execution_time'[a]
      ]_vars

\* C29: start runs every invocation of an event-driven agent whose throttle
\* is zero.
C29_ZeroNeverThrottled ==
    [][ \A k \in TaskIds, a \in Agents :
          ( /\ adm[k][a] = "created" /\ adm'[k][a] # "created"
            /\ AgentType(a) = "event_driven" /\ Throttle(a) = 0 )
          => adm'[k][a] = "running"
      ]_vars

C29_Witness ==
    /\ adm[1]["e3"] = "done" /\ adm[2]["e3"] = "running"
    /\ last_execution_time["e3"] = {admNow[2]["e3"]}

\* C24: once start() has been cancelled, no periodic loop starts a run and
\* no tick is dispatched to the agents.
C24_StopCancels ==
    [][ cancel_requested =>
          /\ \A a \in Agents : loop'[a] = "run" => loop[a] = "run"
          /\ dispatched' = dispatched
      ]_vars

C32_Reentrant ==
    [][ \A k \in TaskIds, a \in Agents :
          ( /\ adm[k][a] = "created" /\ adm'[k][a] # "created"
            /\ AgentType(a) = "event_driven"
            /\ \E j \in TaskIds : adm[j][a] = "running"
            /\ \A t \in last_execution_time[a] : clock - t >= Throttle(a) )
          => /\ adm'[k][a] = "running"
             /\ \E j \in TaskIds \ {k} : adm'[j][a] = "running"
      ]_vars

C32_Witness ==
    /\ dispatched[1] = "returned" /\ dispatched[2] = "returned"
    /\ adm[1]["e1"] = "running" /\ adm[2]["e1"] = "running"
    /\ adm[1]["e2"] = "done" /\ adm[2]["e2"] = "dropped"

\* C35: whether a start task of agent a drops its invocation is decided by
\* a's own _last_execution_time and throttle alone, and no step of a task of
\* a changes the _last_execution_time of another agent.
C35_AgentsIndependent ==
    [][ \A k \in TaskIds, a \in Agents :
          /\ (adm[k][a] = "created" /\ adm'[k][a] # "created") =>
                ( adm'[k][a] = "dropped"
                  <=> /\ AgentType(a) = "event_driven"
                      /\ \E t \in last_execution_time[a] : clock - t < Throttle(a) )
          /\ adm'[k][a] # adm[k][a] =>
                \A b \in Agents \ {a} :
                    last_execution_time'[b] = last_execution_time[b]
      ]_vars

C35_Witness ==
    /\ adm[1]["e1"] = "done" /\ adm[1]["e2"] = "raised"
    /\ last_execution_time["e1"] # {} /\ last_execution_time["e2"] = {}
    /\ adm[2]["e1"] = "dropped" /\ adm[2]["e2"] = "running"

\* C36: _last_execution_time of an agent, once set, stays set and never
\* goes back to an earlier time.
C36_NeverDecreases ==
    [][ \A a \in Agents :
          /\ last_execution_time[a] # {} => last_execution_time'[a] # {}
          /\ \A t \in last_execution_time[a], u \in last_execution_time'[a] : u >= t
      ]_vars

\* C22: the dispatch of a tick waits for no agent: the next tick can be
\* dispatched whatever state the start tasks of the earlier ticks are in,
\* every event-driven agent has its task once the callback has returned, and
\* each task can start and each run can end whatever the other agents'
\* tasks are doing.
C22_NoWaiting ==
    \A k \in TaskIds :
        /\ ( /\ stream_subs # <<>> /\ dispatched[k] = "none"
             /\ \A j \in TaskIds : j < k => dispatched[j] # "none" )
           => ENABLED Dispatch(k)
        /\ dispatched[k] = "returned"
           => \A a \in Agents : InSeq(a, event_agents) => adm[k][a] # "none"
        /\ \A a \in Agents :
              /\ adm[k][a] = "created" => ENABLED AdmitStart(k, a)
              /\ adm[k][a] = "running" => ENABLED RunFinish(k, a)

C22_Witness ==
    /\ dispatched[2] = "returned"
    /\ adm[1]["e1"] = "running" /\ adm[1]["e2"] = "done"
    /\ adm[2]["e2"] # "created" /\ adm[2]["e1"] = "created"

\* C21: after any add_agent calls, _subscribed_quotes is the union of the
\* instruments of the agents in event_agents; what a periodic agent declares
\* is in it only if an event-driven agent declares it too.
C21_SubscribedUnion ==
    /\ subscribed_quotes = AggregateInstruments
    /\ \A a \in Agents : \A sym \in Instruments(a) :
          (InSeq(a, periodic_agents) /\ sym \in subscribed_quotes)
          => \E b \in Agents : InSeq(b, event_agents) /\ sym \in Instruments(b)

C21_Witness ==
    /\ InSeq("p1", periodic_agents) /\ InSeq("e3", event_agents)
    /\ InSeq("e1", event_agents) /\ InSeq("e2", event_agents)
    /\ subscribed_quotes = {"AAPL", "MSFT"}

\* C27: add_agent completes for every agent, and an agent it completed for,
\* and so every agent of the two lists, holds the hub's trading client and
\* the hub's bus.
C27_RegisterInjects ==
    \A a \in Agents :
        /\ added[a] # "raised"
        /\ (added[a] = "added" \/ InSeq(a, event_agents) \/ InSeq(a, periodic_agents))
              => (a \in trading_client /\ a \in agent_bus)

\* C30: add_agent appends the agent to the list of its agent_type and leaves
\* the other list alone, and nothing else changes the lists, so that every
\* registered agent is in exactly the list of its mode, once, in the order
\* of registration; the dispatch of a tick creates a start task for
\* event-driven agents only.
C30_Registries ==
    [][ /\ \A a \in Agents :
            (added[a] = "no" /\ added'[a] = "added") =>
                IF AgentType(a) = "periodic"
                THEN /\ periodic_agents' = Append(periodic_agents, a)
                     /\ event_agents' = event_agents
                ELSE /\ event_agents' = Append(event_agents, a)
                     /\ periodic_agents' = periodic_agents
        /\ (\A a \in Agents : added'[a] = added[a] \/ added'[a] = "raised")
              => (event_agents' = event_agents /\ periodic_agents' = periodic_agents)
        /\ \A a \in Agents :
              added'[a] = "added" =>
                IF AgentType(a) = "periodic"
                THEN /\ Occurrences(a, periodic_agents') = 1
                     /\ Occurrences(a, event_agents') = 0
                ELSE /\ Occurrences(a, event_agents') = 1
                     /\ Occurrences(a, periodic_agents') = 0
        /\ \A k \in TaskIds, a \in Agents :
              adm'[k][a] # "none" => AgentType(a) = "event_driven"
      ]_vars

C30_Witness ==
    /\ periodic_agents = <<"p2", "p1">>
    /\ event_agents = <<"e3", "e1", "e2">>
    /\ \E k \in Ticks : /\ dispatched[k] = "returned"
                        /\ adm[k]["p1"] = "none" /\ adm[k]["e1"] = "created"

(***************************************************************************)
(* DataCache (src/src/algo_toolkit/data_cache.py), the store the agents     *)
(* share.  _cache is a dict of dicts: a node is addressed by its sequence   *)
(* of keys and holds a value or is a dict ("dict").  A path is a string,    *)
(* here the sequence of its characters, and a key is what split("/") cuts   *)
(* out of it.  No method has an await: every call is one step.              *)
(***************************************************************************)
Paths ==
    { <<"a">>, <<"a", "/", "b">>, <<"a", "/", "b", "/", "a">>,
      <<"a", "/", "b", "/", "b">>, <<"a", "/">>, <<>> }

\* The stored values: None, a falsy value and a truthy one.
Values == {"None", "0", "v1"}

\* path.split("/")
RECURSIVE Split(_)
Split(s) ==
    IF \A i \in 1 .. Len(s) : s[i] # "/"
    THEN <<s>>
    ELSE LET i == CHOOSE i \in 1 .. Len(s) :
                      s[i] = "/" /\ \A j \in 1 .. (i - 1) : s[j] # "/"
         IN <<SubSeq(s, 1, i - 1)>> \o Split(SubSeq(s, i + 1, Len(s)))

\* keys[:i]
Prefix(keys, i) == SubSeq(keys, 1, i)

IsPrefix(ks, qs) == Len(ks) <= Len(qs) /\ SubSeq(qs, 1, Len(ks)) = ks

\* The object the walk stands on after the keys ks: the root dict, a dict, a
\* value.
Node(c, ks) ==
    IF ks = <<>> THEN "dict"
    ELSE IF ks \in DOMAIN c THEN c[ks]
    ELSE "missing"

\* Put that keeps what the key holds already, as setdefault does.
PutIfMissing(c, ks, x) ==
    IF ks \in DOMAIN c THEN c ELSE
    [q \in DOMAIN c \cup {ks} |-> IF q = ks THEN x ELSE c[q]]

\* d[key] = x: whatever was under the key is replaced.
Put(c, ks, x) ==
    [q \in {q \in DOMAIN c : ~IsPrefix(ks, q)} \cup {ks} |->
        IF q = ks THEN x ELSE c[q]]

\* Remove that also drops the dict above the key when the pop has left it
\* empty.
RemovePruning(c, ks) ==
    LET d == [q \in {q \in DOMAIN c : ~IsPrefix(ks, q)} |-> c[q]]
        up == SubSeq(ks, 1, Len(ks) - 1)
    IN IF up # <<>> /\ ~\E q \in DOMAIN d : q # up /\ IsPrefix(up, q)
       THEN [q \in DOMAIN d \ {up} |-> d[q]]
       ELSE d

\* d.pop(key, None)
Remove(c, ks) == [q \in {q \in DOMAIN c : ~IsPrefix(ks, q)} |-> c[q]]

\* SetDefault that puts a dict over a None it finds under the key.
SetDefaultOverNone(c, ks) ==
    IF ks \in DOMAIN c /\ c[ks] # "None" THEN c
    ELSE [q \in DOMAIN c \cup {ks} |-> IF q = ks THEN "dict" ELSE c[q]]

\* d.setdefault(key, {}): the cache afterwards (the call returns the node).
SetDefault(c, ks) ==
    IF ks \in DOMAIN c THEN c
    ELSE [q \in DOMAIN c \cup {ks} |-> IF q = ks THEN "dict" ELSE c[q]]

\* SetWalk cut before the assignment: the loop has made the dicts on the way,
\* the value is not stored yet, and the next call of another agent runs.
RECURSIVE SetWalkInterrupted(_, _, _, _)
SetWalkInterrupted(c, keys, i, value) ==
    IF Node(c, Prefix(keys, i - 1)) # "dict"
    THEN [cache |-> c, raised |-> TRUE]
    ELSE IF i = Len(keys)
    THEN [cache |-> c, raised |-> FALSE]
    ELSE SetWalkInterrupted(SetDefault(c, Prefix(keys, i)), keys, i + 1, value)

\* set: the loop over keys[:-1] from the i-th key on, then the assignment.
\* setdefault and item assignment on an object that is not a dict raise
\* (AttributeError, TypeError); the cache is left as the walk made it.
RECURSIVE SetWalk(_, _, _, _)
SetWalk(c, keys, i, value) ==
    IF Node(c, Prefix(keys, i - 1)) # "dict"
    THEN [cache |-> c, raised |-> TRUE]
    ELSE IF i = Len(keys)
    THEN [cache |-> Put(c, keys, value), raised |-> FALSE]
    ELSE SetWalk(SetDefault(c, Prefix(keys, i)), keys, i + 1, value)

\* get: the loop over keys from the i-th key on.
RECURSIVE GetWalk(_, _, _, _)
GetWalk(c, keys, i, default) ==
    IF i > Len(keys) THEN Node(c, keys)
    ELSE IF \/ Node(c, Prefix(keys, i - 1)) # "dict"
            \/ Prefix(keys, i) \notin DOMAIN c
    THEN default
    ELSE GetWalk(c, keys, i + 1, default)

Get(c, path, default) == GetWalk(c, Split(path), 1, default)

\* exists: self.get(path, default=None) is not None
Exists(c, path) == Get(c, path, "None") # "None"

\* DeleteWalk without the isinstance test: the walk steps onto a value, and
\* `key not in d` or d.pop then raise.
RECURSIVE DeleteWalkNoTypeCheck(_, _, _)
DeleteWalkNoTypeCheck(c, keys, i) ==
    IF Node(c, Prefix(keys, i - 1)) # "dict"
    THEN [cache |-> c, result |-> "raised"]
    ELSE IF i = Len(keys)
    THEN [cache |-> Remove(c, keys),
          result |-> IF Node(c, keys) \in {"missing", "None"} THEN "False" ELSE "True"]
    ELSE IF Prefix(keys, i) \notin DOMAIN c
    THEN [cache |-> c, result |-> "False"]
    ELSE DeleteWalkNoTypeCheck(c, keys, i + 1)

\* delete: the loop over keys[:-1] from the i-th key on, then
\* d.pop(keys[-1], None) is not None.
RECURSIVE DeleteWalk(_, _, _)
DeleteWalk(c, keys, i) ==
    IF i = Len(keys)
    THEN [cache |-> Remove(c, keys),
          result |-> IF Node(c, keys) \in {"missing", "None"} THEN "False" ELSE "True"]
    ELSE IF Prefix(keys, i) \notin DOMAIN c \/ c[Prefix(keys, i)] # "dict"
    THEN [cache |-> c, result |-> "False"]
    ELSE DeleteWalk(c, keys, i + 1)

NoStoreOp == [kind |-> "none", path |-> <<>>, value |-> "-", result |-> "-"]

StoreInit ==
    /\ cache = [q \in {} |-> "dict"]
    /\ storeOp = NoStoreOp
    /\ storeCount = 0
    /\ written = {}

\* cache.set(path, value)
StoreSet(p, v) ==
    /\ storeCount < MaxOps
    /\ storeCount' = storeCount + 1
    /\ LET r == SetWalk(cache, Split(p), 1, v)
       IN /\ cache' = r.cache
          /\ storeOp' = [kind |-> "set", path |-> p, value |-> v,
                         result |-> IF r.raised THEN "raised" ELSE "ok"]
          /\ written' = IF r.raised THEN written ELSE written \cup {Split(p)}

\* cache.get(path, default); "default" is a default other than None
StoreGet(p, default) ==
    /\ storeCount < MaxOps
    /\ storeCount' = storeCount + 1
    /\ storeOp' = [kind |-> "get", path |-> p, value |-> default,
                   result |-> Get(cache, p, default)]
    /\ UNCHANGED <<cache, written>>

\* cache.exists(path)
StoreExists(p) ==
    /\ storeCount < MaxOps
    /\ storeCount' = storeCount + 1
    /\ storeOp' = [kind |-> "exists", path |-> p, value |-> "-",
                   result |-> IF Exists(cache, p) THEN "True" ELSE "False"]
    /\ UNCHANGED <<cache, written>>

\* cache.delete(path)
StoreDelete(p) ==
    /\ storeCount < MaxOps
    /\ storeCount' = storeCount + 1
    /\ LET r == DeleteWalk(cache, Split(p), 1)
       IN /\ cache' = r.cache
          /\ storeOp' = [kind |-> "delete", path |-> p, value |-> "-",
                         result |-> r.result]
    /\ UNCHANGED written

StoreNext ==
    \/ \E p \in Paths, v \in Values :
            StoreSet(p, v) /\ UNCHANGED <<busVars, hubVars, agentVars, stopVars, nestVars, parseVars>>
    \/ \E p \in Paths, default \in {"None", "default"} :
            StoreGet(p, default) /\ UNCHANGED <<busVars, hubVars, agentVars, stopVars, nestVars, parseVars>>
    \/ \E p \in Paths : StoreExists(p) /\ UNCHANGED <<busVars, hubVars, agentVars, stopVars, nestVars, parseVars>>
    \/ \E p \in Paths : StoreDelete(p) /\ UNCHANGED <<busVars, hubVars, agentVars, stopVars, nestVars, parseVars>>

(***************************************************************************)
(* Properties of the cache.  A step with storeCount' # storeCount is one   *)
(* call; storeOp' is that call and cache, cache' the cache around it.      *)
(***************************************************************************)
\* The call is a set or a delete of the path q or of a prefix of q.
Addresses(o, q) ==
    o.kind \in {"set", "delete"} /\ IsPrefix(Split(o.path), Split(q))

\* Every node hangs under the root or under a dict.
WellFormed(c) ==
    \A q \in DOMAIN c : Len(q) >= 1 /\ Node(c, Prefix(q, Len(q) - 1)) = "dict"

\* C13: a set(p, v) that returns leaves get(p) = v, whether or not the
\* segments on the way existed; a value that get(q) returns stays what it is
\* over every call that is not a set or delete of q or of a prefix of q; and
\* get returns the default for every path that no set has stored at or below.
C13_RoundTrip ==
    [][ storeCount' # storeCount =>
          /\ (storeOp'.kind = "set" /\ storeOp'.result = "ok")
                => Get(cache', storeOp'.path, "default") = storeOp'.value
          /\ \A q \in Paths :
                ( /\ Get(cache, q, "default") \in Values
                  /\ ~Addresses(storeOp', q) )
                => Get(cache', q, "default") = Get(cache, q, "default")
          /\ \A q \in Paths :
                Get(cache', q, "default") # "default"
                => \E w \in written' : IsPrefix(Split(q), w)
      ]_vars

C13_Witness ==
    /\ storeOp.kind = "get" /\ storeOp.result = "v1"
    /\ Len(Split(storeOp.path)) = 3
    /\ \E q \in Paths : q # storeOp.path /\ Get(cache, q, "default") = "0"
    /\ Get(cache, <<"a", "/">>, "default") = "default"

\* C14: delete(p) returns True exactly when something was stored at p and
\* the call removed it, whatever the stored value; after True, get(p) is the
\* default; a delete that returns False has left the cache as it was.
C14_DeleteResult ==
    [][ (storeCount' # storeCount /\ storeOp'.kind = "delete") =>
          /\ storeOp'.result = "True"
                <=> /\ Get(cache, storeOp'.path, "default") # "default"
                    /\ Get(cache', storeOp'.path, "default") = "default"
          /\ storeOp'.result = "True"
                => Get(cache', storeOp'.path, "default") = "default"
          /\ storeOp'.result = "False" => cache' = cache
      ]_vars

\* C15: get, exists and delete on a path that does not resolve, because a
\* segment is missing or because the path runs through a value, return the
\* default (get) or False without raising and leave the cache as it was.
C15_MissingSegment ==
    [][ ( /\ storeCount' # storeCount
          /\ storeOp'.kind \in {"get", "exists", "delete"}
          /\ Get(cache, storeOp'.path, "default") = "default" )
        => /\ storeOp'.result =
                    IF storeOp'.kind = "get" THEN storeOp'.value ELSE "False"
           /\ cache' = cache
      ]_vars

C15_Witness ==
    /\ storeOp.kind = "delete" /\ storeOp.result = "False"
    /\ Len(Split(storeOp.path)) = 3
    /\ Node(cache, << <<"a">> >>) = "v1"
    /\ storeCount >= 3

\* The whole effect of a set(keys, value) that returned: the value is at keys
\* with nothing below it, the nodes on the way are dicts, the rest is as before.
WholeSet(c, d, keys, value) ==
    /\ Node(d, keys) = value
    /\ \A i \in 1 .. (Len(keys) - 1) : Node(d, Prefix(keys, i)) = "dict"
    /\ \A q \in DOMAIN c \cup DOMAIN d :
          IF IsPrefix(keys, q) THEN (q \in DOMAIN d <=> q = keys)
          ELSE IF IsPrefix(q, keys) THEN q \in DOMAIN d
          ELSE Node(d, q) = Node(c, q)

\* The whole effect of a delete(keys): when the walk reaches the last key,
\* nothing is left at or below keys; the rest is as before.
WholeDelete(c, d, keys) ==
    \A q \in DOMAIN c \cup DOMAIN d :
        IF IsPrefix(keys, q) /\ Node(c, Prefix(keys, Len(keys) - 1)) = "dict"
        THEN q \notin DOMAIN d
        ELSE Node(d, q) = Node(c, q)

\* C16: the cache changes only by whole calls: every step that changes it is
\* one set or one delete and carries that call's whole effect, a get, an
\* exists and a failed set change nothing, and what any call finds is a
\* cache in which no set or delete is half done.
C16_Atomic ==
    [][ /\ cache' # cache => storeCount' = storeCount + 1
        /\ storeCount' # storeCount =>
              IF storeOp'.kind = "set" /\ storeOp'.result = "ok"
              THEN WholeSet(cache, cache', Split(storeOp'.path), storeOp'.value)
              ELSE IF storeOp'.kind = "delete"
              THEN WholeDelete(cache, cache', Split(storeOp'.path))
              ELSE cache' = cache
        /\ WellFormed(cache')
      ]_vars

C16_Witness ==
    /\ storeOp.kind = "delete" /\ storeOp.result = "True"
    /\ Len(Split(storeOp.path)) = 2
    /\ \E q \in DOMAIN cache : cache[q] \in Values
    /\ storeCount >= 3

\* A key before the last one of keys holds a value, not a dict.
Collides(c, keys) ==
    \E i \in 1 .. (Len(keys) - 1) : Node(c, Prefix(keys, i)) \in Values

\* C17: a set(p, v) through a prefix of p that holds a value fails, every
\* time and whatever the value, and leaves the cache exactly as it was.
C17_CollisionFails ==
    [][ ( /\ storeCount' # storeCount /\ storeOp'.kind = "set"
          /\ Collides(cache, Split(storeOp'.path)) )
        => /\ storeOp'.result = "raised"
           /\ cache' = cache
      ]_vars

C17_Witness ==
    /\ storeOp.kind = "set" /\ storeOp.result = "raised"
    /\ Len(Split(storeOp.path)) = 3
    /\ Node(cache, << <<"a">>, <<"b">> >>) = "None"

\* C33: exists(p) returns True exactly when something is stored at p, that
\* is when get(p) finds a value or a dict there, whatever the value.
C33_ExistsExact ==
    [][ (storeCount' # storeCount /\ storeOp'.kind = "exists") =>
          ( storeOp'.result = "True"
            <=> Get(cache, storeOp'.path, "default") # "default" )
      ]_vars

\* C34: a delete(p) leaves every path that is neither p nor below p resolving
\* to what it resolved to before: siblings, the dicts above p, everything
\* else in the cache.
C34_DeleteFrame ==
    [][ (storeCount' # storeCount /\ storeOp'.kind = "delete") =>
          /\ \A q \in Paths :
                ~IsPrefix(Split(storeOp'.path), Split(q))
                => Get(cache', q, "default") = Get(cache, q, "default")
          /\ \A q \in DOMAIN cache \cup DOMAIN cache' :
                ~IsPrefix(Split(storeOp'.path), q)
                => Node(cache', q) = Node(cache, q)
      ]_vars

C34_Witness ==
    /\ storeOp.kind = "delete" /\ storeOp.result = "True"
    /\ storeOp.path = <<"a", "/", "b", "/", "a">>
    /\ Get(cache, <<"a", "/", "b", "/", "b">>, "default") \in Values
    /\ Get(cache, <<"a", "/", "b">>, "default") = "dict"

(***************************************************************************)
(* _parse_time_string (src/src/core/trading_agent.py), which set_throttle  *)
(* calls.  A string is the sequence of its characters; a duration is its   *)
(* number of milliseconds.                                                 *)
(***************************************************************************)
ParseChars == {"5", "0", "m", "s", "x"}

RECURSIVE StringsOfLen(_)
StringsOfLen(n) ==
    IF n = 0 THEN {<<>>}
    ELSE {Append(w, ch) : w \in StringsOfLen(n - 1), ch \in ParseChars}

\* The strings parsed: every string of up to MaxLen characters, and some
\* longer ones.
TimeStrings ==
    UNION {StringsOfLen(n) : n \in 0 .. MaxLen}
    \cup { <<"5", "0", "0", "m", "s">>, <<"3", "0", "m">>, <<"2", "h">>,
           <<"1", "d">>, <<"a", "b", "c">>, <<"5", "x">>, <<"5", "S">>,
           <<"5", " ", "s">>, <<"2", "H", "s">>, <<"1", "d", "s">>,
           <<"5", "m", "i", "l", "l", "i", "s", "e", "c", "o", "n", "d", "s">>,
           <<"5", "m", "i", "n", "u", "t", "e", "s">> }

IsDigit(ch) == ch \in {"0", "1", "2", "3", "4", "5", "6", "7", "8", "9"}

DigitValue(ch) ==
    CASE ch = "0" -> 0 [] ch = "1" -> 1 [] ch = "2" -> 2 [] ch = "3" -> 3
      [] ch = "4" -> 4 [] ch = "5" -> 5 [] ch = "6" -> 6 [] ch = "7" -> 7
      [] ch = "8" -> 8 [] ch = "9" -> 9

\* str.lower(), on the letters that matter
Lower(ch) ==
    CASE ch = "M" -> "m" [] ch = "S" -> "s" [] ch = "H" -> "h" [] ch = "D" -> "d"
      [] OTHER -> ch

\* int(match.group(1)) for the first n characters
RECURSIVE IntOf(_, _)
IntOf(str, n) ==
    IF n = 0 THEN 0 ELSE 10 * IntOf(str, n - 1) + DigitValue(str[n])

\* (\d+): how many digits the string begins with
LeadingDigits(str) ==
    IF \A i \in 1 .. Len(str) : IsDigit(str[i]) THEN Len(str)
    ELSE (CHOOSE i \in 1 .. Len(str) :
              ~IsDigit(str[i]) /\ \A j \in 1 .. (i - 1) : IsDigit(str[j])) - 1

\* \s*: the first position at or after pos that holds no blank
RECURSIVE SkipBlanks(_, _)
SkipBlanks(str, pos) ==
    IF pos <= Len(str) /\ str[pos] = " " THEN SkipBlanks(str, pos + 1) ELSE pos

\* The alternatives of the unit group, in the order the regular expression
\* tries them (a trailing `s?` first with the s, then without).
UnitAlternatives ==
    << <<"m", "s">>,
       <<"m", "i", "l", "l", "i", "s", "e", "c", "o", "n", "d", "s">>,
       <<"m", "i", "l", "l", "i", "s", "e", "c", "o", "n", "d">>,
       <<"s">>,
       <<"s", "e", "c", "o", "n", "d", "s">>, <<"s", "e", "c", "o", "n", "d">>,
       <<"m">>,
       <<"m", "i", "n", "u", "t", "e", "s">>, <<"m", "i", "n", "u", "t", "e">>,
       <<"h">>,
       <<"h", "o", "u", "r", "s">>, <<"h", "o", "u", "r">>,
       <<"d">>,
       <<"d", "a", "y", "s">>, <<"d", "a", "y">> >>

\* The alternative matches at pos (re.IGNORECASE); nothing is asked of what
\* follows it, re.match anchors the start only.
MatchesAt(str, pos, alt) ==
    /\ pos + Len(alt) - 1 <= Len(str)
    /\ \A i \in 1 .. Len(alt) : Lower(str[pos + i - 1]) = alt[i]

\* unit.startswith(prefix)
StartsWith(unit, prefix) ==
    Len(prefix) <= Len(unit) /\ SubSeq(unit, 1, Len(prefix)) = prefix

Duration(ms) == [status |-> "ok", ms |-> ms]
ParseError == [status |-> "ValueError", ms |-> 0]

\* The chain of `if unit.startswith(...)` of _parse_time_string.
UnitToDuration(value, unit) ==
    IF StartsWith(unit, <<"m", "s">>) THEN Duration(value)
    ELSE IF StartsWith(unit, <<"s">>) THEN Duration(value * 1000)
    ELSE IF StartsWith(unit, <<"m">>) THEN Duration(value * 60000)
    ELSE IF StartsWith(unit, <<"h">>) THEN Duration(value * 3600000)
    ELSE Duration(value * 86400000)

\* _parse_time_string(time_str)
ParseTimeString(str) ==
    LET n == LeadingDigits(str)
        pos == SkipBlanks(str, n + 1)
        hits == {k \in 1 .. Len(UnitAlternatives) :
                    MatchesAt(str, pos, UnitAlternatives[k])}
    IN IF n = 0 \/ hits = {} THEN ParseError
       ELSE UnitToDuration(IntOf(str, n),
                UnitAlternatives[CHOOSE k \in hits : \A j \in hits : k <= j])

ParseInit ==
    /\ time_str = <<>>
    /\ parse_result = [status |-> "none", ms |-> 0]

\* A call of _parse_time_string, as set_throttle makes it.
CallParse(str) ==
    /\ time_str' = str
    /\ parse_result' = ParseTimeString(str)

ParseNext ==
    \E str \in TimeStrings :
        CallParse(str) /\ UNCHANGED <<busVars, hubVars, agentVars, storeVars, stopVars, nestVars>>

\* The reference: <integer><unit>, the unit one of ms, s, m, h, d in either
\* case, an optional s after it, and nothing else.
ReferenceUnits ==
    { <<"m", "s">>, <<"s">>, <<"m">>, <<"h">>, <<"d">> }

ReferenceDuration(str) ==
    LET n == LeadingDigits(str)
        rest == [i \in 1 .. (Len(str) - n) |-> Lower(str[n + i])]
        unit == IF rest \in ReferenceUnits THEN rest
                ELSE IF Len(rest) >= 2 /\ rest[Len(rest)] = "s"
                        /\ SubSeq(rest, 1, Len(rest) - 1) \in ReferenceUnits
                     THEN SubSeq(rest, 1, Len(rest) - 1)
                ELSE <<>>
    IN IF n = 0 \/ unit = <<>> THEN ParseError
       ELSE Duration(IntOf(str, n) *
                (CASE unit = <<"m", "s">> -> 1 [] unit = <<"s">> -> 1000
                   [] unit = <<"m">> -> 60000 [] unit = <<"h">> -> 3600000
                   [] unit = <<"d">> -> 86400000))

\* C26: for every string, _parse_time_string returns the duration the
\* reference gives it, and raises its parse error for every string the
\* reference rejects.
C26_ParseAgrees ==
    parse_result.status # "none" => parse_result = ReferenceDuration(time_str)

\* The state after construction of the bus, the hub, the agents and the cache.
Init ==
    BusInit /\ HubInit /\ AgentInit /\ StoreInit /\ StopInit /\ NestInit /\ ParseInit

\* The same with the bus the hub constructs, CommunicationBus().
HubBusInit == Init /\ variant = "plain"

(***************************************************************************)
(* The specifications: the bus under concurrent calls, one agent's         *)
(* throttle under concurrent admits, and the hub.                          *)
(***************************************************************************)
SpecBus == Init /\ [][BusNext]_vars

AgentNext ==
    \/ ClockAdvance /\ UNCHANGED <<busVars, hubVars, storeVars, stopVars, nestVars, parseVars>>
    \/ \E k \in TaskIds, a \in {"e1", "e3", "p1"} :
            DirectAdmit(k, a) /\ UNCHANGED <<busVars, hubVars, storeVars, stopVars, nestVars, parseVars>>
    \/ \E k \in TaskIds, a \in Agents : AdmitStart(k, a) /\ UNCHANGED <<busVars, hubVars, storeVars, stopVars, nestVars, parseVars>>
    \/ \E k \in TaskIds, a \in Agents : RunFinish(k, a) /\ UNCHANGED <<busVars, hubVars, storeVars, stopVars, nestVars, parseVars>>

\* The bus with one repeated subscribe among its calls.
ResubNext ==
    \/ BusNext
    \/ \E c \in ResubCalls, t \in Topics, l \in Listeners :
            CallResubscribe(c, t, l) /\ UNCHANGED <<hubVars, agentVars, storeVars, stopVars, nestVars, parseVars>>
    \/ \E c \in ResubCalls : PlainSubscribeEnter(c) /\ UNCHANGED <<hubVars, agentVars, storeVars, stopVars, nestVars, parseVars>>
    \/ \E c \in ResubCalls : StatefulSubscribeEnter(c) /\ UNCHANGED <<hubVars, agentVars, storeVars, stopVars, nestVars, parseVars>>

SpecResub == Init /\ [][ResubNext]_vars

\* The bus with listeners whose bodies call the bus.
NestedNext ==
    \/ BusNext
    \/ \E c, d \in Calls, l \in Listeners, t \in Topics :
            ListenerCallsPublish(c, l, d, t) /\ UNCHANGED <<hubVars, agentVars, storeVars, stopVars, parseVars>>
    \/ \E c, d \in Calls, l, l2 \in Listeners, t \in Topics :
            ListenerCallsSubscribe(c, l, d, t, l2) /\ UNCHANGED <<hubVars, agentVars, storeVars, stopVars, parseVars>>

SpecNested == Init /\ [][NestedNext]_vars

\* The cache under the calls of the agents.
SpecStore == HubBusInit /\ [][StoreNext]_vars

\* _parse_time_string on its own.
SpecParse == HubBusInit /\ [][ParseNext]_vars

\* The hub under add_agent calls in any order, then start() and the ticks.
RegNext ==
    \/ \E a \in Agents : AddAgent(a) /\ UNCHANGED <<toAdd, busVars, agentVars, storeVars, stopVars, nestVars, parseVars>>
    \/ Start /\ UNCHANGED <<busVars, agentVars, storeVars, cancel_requested, nestVars, parseVars>>
    \/ \E k \in Ticks : Dispatch(k) /\ UNCHANGED <<busVars, storeVars, stopVars, nestVars, parseVars>>

SpecReg == HubBusInit /\ [][RegNext]_vars

\* The hub with its ticks and the start tasks they create, the periodic
\* loops left aside.
DispatchNext ==
    \/ ChooseScript /\ UNCHANGED <<busVars, agentVars, storeVars, stopVars, nestVars, parseVars>>
    \/ ScriptedAdd /\ UNCHANGED <<busVars, agentVars, storeVars, stopVars, nestVars, parseVars>>
    \/ Start /\ UNCHANGED <<busVars, agentVars, storeVars, cancel_requested, nestVars, parseVars>>
    \/ \E k \in TaskIds : Dispatch(k) /\ UNCHANGED <<busVars, storeVars, stopVars, nestVars, parseVars>>
    \/ \E k \in TaskIds, a \in Agents :
            AdmitStart(k, a) /\ UNCHANGED <<busVars, hubVars, storeVars, stopVars, nestVars, parseVars>>
    \/ \E k \in TaskIds, a \in Agents :
            RunFinish(k, a) /\ UNCHANGED <<busVars, hubVars, storeVars, stopVars, nestVars, parseVars>>

SpecDispatch == HubBusInit /\ [][DispatchNext]_vars

SpecAgent == HubBusInit /\ [][AgentNext]_vars

HubNext ==
    \/ ChooseScript /\ UNCHANGED <<busVars, agentVars, storeVars, stopVars, nestVars, parseVars>>
    \/ ScriptedAdd /\ UNCHANGED <<busVars, agentVars, storeVars, stopVars, nestVars, parseVars>>
    \/ Start /\ UNCHANGED <<busVars, agentVars, storeVars, cancel_requested, nestVars, parseVars>>
    \/ \E a \in Agents : LoopRun(a) /\ UNCHANGED <<busVars, agentVars, storeVars, stopVars, nestVars, parseVars>>
    \/ \E a \in Agents : LoopRunEnd(a) /\ UNCHANGED <<busVars, agentVars, storeVars, stopVars, nestVars, parseVars>>
    \/ \E k \in Ticks : Dispatch(k) /\ UNCHANGED <<busVars, storeVars, stopVars, nestVars, parseVars>>
    \/ ClockAdvance /\ UNCHANGED <<busVars, hubVars, storeVars, stopVars, nestVars, parseVars>>
    \/ \E k \in TaskIds, a \in Agents : AdmitStart(k, a) /\ UNCHANGED <<busVars, hubVars, storeVars, stopVars, nestVars, parseVars>>
    \/ \E k \in TaskIds, a \in Agents : RunFinish(k, a) /\ UNCHANGED <<busVars, hubVars, storeVars, stopVars, nestVars, parseVars>>

SpecHub == HubBusInit /\ [][HubNext]_vars

\* The hub with the cancellation of the task that runs start().
StopNext ==
    \/ HubNext
    \/ CancelStart /\ UNCHANGED <<busVars, agentVars, storeVars, nestVars, parseVars>>

SpecStop == HubBusInit /\ [][StopNext]_vars

\* The periodic loops under a fair event loop and a clock that never stops;
\* nothing is assumed about the runs ending.
LiveNext ==
    \/ ChooseScript /\ UNCHANGED <<busVars, agentVars, storeVars, stopVars, nestVars, parseVars>>
    \/ ScriptedAdd /\ UNCHANGED <<busVars, agentVars, storeVars, stopVars, nestVars, parseVars>>
    \/ Start /\ UNCHANGED <<busVars, agentVars, storeVars, cancel_requested, nestVars, parseVars>>
    \/ \E a \in Agents : LoopRun(a) /\ UNCHANGED <<busVars, agentVars, storeVars, stopVars, nestVars, parseVars>>
    \/ \E a \in Agents : LoopRunEnd(a) /\ UNCHANGED <<busVars, agentVars, storeVars, stopVars, nestVars, parseVars>>
    \/ ClockAdvance /\ UNCHANGED <<busVars, hubVars, storeVars, stopVars, nestVars, parseVars>>
    \/ ClockRebase /\ UNCHANGED <<busVars, storeVars, stopVars, nestVars, parseVars>>

LiveFairness ==
    /\ WF_vars(ClockAdvance /\ UNCHANGED <<busVars, hubVars, storeVars, stopVars, nestVars, parseVars>>)
    /\ WF_vars(ClockRebase /\ UNCHANGED <<busVars, storeVars, stopVars, nestVars, parseVars>>)
    /\ \A a \in Agents :
            WF_vars(LoopRun(a) /\ UNCHANGED <<busVars, agentVars, storeVars, stopVars, nestVars, parseVars>>)

SpecLive == HubBusInit /\ [][LiveNext]_vars /\ LiveFairness

====
